---- MODULE Spec2Model ----
(***************************************************************************)
(* Model of the intent classifier of src/src/classifier.py and of the      *)
(* skill functions of src/src/skill.py that drive it.                      *)
(*                                                                         *)
(* Numbers: every similarity, score and confidence is an integer number of *)
(* thousandths (0.15 is 150, 0.95 is 950), which is the precision the code *)
(* rounds its results to (round(x, 3)).                                    *)
(*                                                                         *)
(* Text: an utterance is the sequence of its whitespace-separated tokens   *)
(* (str.split()); the text is the tokens joined by single spaces.  The     *)
(* results of the string primitives of the Python library on the tokens    *)
(* (str.lower, the substring test `in`, re.search) are tabulated for the   *)
(* vocabulary below; everything the repository's code does with them is    *)
(* computed.                                                               *)
(*                                                                         *)
(* Vectors: the embedder draws a pseudo-random unit vector from a seed     *)
(* that is the hash of the lower-cased text.  The model keeps the unit     *)
(* vectors of the plane whose angle is a multiple of 15 degrees, a vector  *)
(* being the number of its direction, and the cosine of two of them is     *)
(* read from CosTable.                                                     *)
(***************************************************************************)
EXTENDS Integers, Sequences, FiniteSets, TLC

(***************************************************************************)
(* Bounds of the model.                                                    *)
(***************************************************************************)
\* calls of the classifier's and the skill's operations in one behaviour
MaxCalls == 2
\* calls of SessionManager.add in one behaviour of the session store
MaxAdds == 12
\* entries added to a vector store in one behaviour of the vector store
MaxEntries == 4
\* turns added in one behaviour of the session tools
MaxTurns == 3
\* largest top_k / n argument tried
MaxK == 5
\* bits of a seed: the code seeds with hash(text) % (2**32), and the model
\* keeps this many bits of it
SeedBits == 16

(***************************************************************************)
(* Program constants.                                                      *)
(***************************************************************************)
\* SessionManager.add keeps the last 10 turns
HistoryCap == 10
\* generate_disambiguation: a gap above 0.15 is a clear winner
ClearWinnerGap == 150
\* _apply_context_boost: only below 0.8
BoostCeiling == 800
\* _apply_context_boost: min(0.95, ...)
BoostCap == 950
\* _apply_context_boost: boost with a continuation signal / when only short
BoostContinuation == 150
BoostShort == 100
\* _apply_context_boost: is_short is at most 4 words
ShortWords == 4
\* _classify_single: confidence when no top-3 hit has the best intent
DefaultConfidence == 500
\* options a disambiguation offers at most
MaxOptions == 3

(***************************************************************************)
(* Generic helpers.                                                        *)
(***************************************************************************)
Range(f) == {f[x] : x \in DOMAIN f}

Min(a, b) == IF a <= b THEN a ELSE b

Max(a, b) == IF a >= b THEN a ELSE b

RECURSIVE SumSeq(_)
SumSeq(s) == IF s = <<>> THEN 0 ELSE Head(s) + SumSeq(Tail(s))

\* s[start:] of Python, start possibly negative
PySliceFrom(s, start) ==
    LET n == Len(s)
        b == IF start < 0 THEN Max(n + start, 0) ELSE Min(start, n)
    IN  SubSeq(s, b + 1, n)

\* s[:stop] of Python, for stop >= 0
PySliceTo(s, stop) == SubSeq(s, 1, Min(stop, Len(s)))

\* s[::-1]
Reverse(s) == [i \in 1..Len(s) |-> s[Len(s) + 1 - i]]

\* round(num / den, 3) on thousandths: the nearest integer, a tie going to
\* the even one (Python's round)
RoundDiv(num, den) ==
    LET q == num \div den
        r == num % den
    IN  IF 2 * r < den THEN q
        ELSE IF 2 * r > den THEN q + 1
        ELSE IF q % 2 = 0 THEN q ELSE q + 1

\* {**base, **over}: the keys of both, over's value where both have the key
DictMerge(base, over) ==
    [k \in (DOMAIN base) \cup (DOMAIN over) |->
        IF k \in DOMAIN over THEN over[k] ELSE base[k]]

EmptyDict == [k \in {} |-> 0]

(***************************************************************************)
(* Text.                                                                   *)
(***************************************************************************)
\* str.lower() of the tokens that are not lower-case already
LowerTable ==
    [t \in {"I", "NEED", "TO", "REFILL", "MY", "PRESCRIPTION", "HSA", "What",
            "Drug", "Deductible", "Am", "Check", "DME"} |->
        CASE t = "I" -> "i"
          [] t = "NEED" -> "need"
          [] t = "TO" -> "to"
          [] t = "REFILL" -> "refill"
          [] t = "MY" -> "my"
          [] t = "PRESCRIPTION" -> "prescription"
          [] t = "HSA" -> "hsa"
          [] t = "What" -> "what"
          [] t = "Drug" -> "drug"
          [] t = "Deductible" -> "deductible"
          [] t = "Am" -> "am"
          [] t = "Check" -> "check"
          [] t = "DME" -> "dme"]

LowerToken(t) == IF t \in DOMAIN LowerTable THEN LowerTable[t] ELSE t

\* text.lower()
Lower(text) == [i \in 1..Len(text) |-> LowerToken(text[i])]

\* the lower-case tokens, in the order that numbers them for the hash
Vocabulary ==
    <<"i", "need", "to", "refill", "my", "prescription", "what", "about",
      "that", "hsa", "balance", "and", "also", "is", "deductible", "pay",
      "$50", "$75", "zip", "12345", "please", "explain", "benefits", "now",
      "drug", "formulary", "status", "copay", "am", "covered", "check",
      "claim", "dme", "authorization", "plus", "status.">>

TokenCode(t) == CHOOSE i \in 1..Len(Vocabulary) : Vocabulary[i] = t

\* the utterances tried
uRefill == <<"I", "need", "to", "refill", "my", "prescription">>
uRefillUpper == <<"I", "NEED", "TO", "REFILL", "MY", "PRESCRIPTION">>
uThat == <<"what", "about", "that">>
uHsa == <<"HSA", "balance">>
uMulti == <<"I", "need", "to", "refill", "my", "prescription", "and", "also",
            "what", "is", "my", "deductible">>
uPay50 == <<"pay", "$50">>
uPay75 == <<"pay", "$75", "zip", "12345">>
uBenefits == <<"please", "explain", "my", "benefits", "now">>
uExplain == <<"explain", "benefits">>
uThree == <<"I", "need", "to", "refill", "my", "prescription", "and", "also",
            "what", "is", "my", "deductible", "plus", "HSA", "balance">>
uAndI == <<"HSA", "balance", "and", "I", "need", "to", "refill", "my",
           "prescription">>
uTwoSentences == <<"Check", "my", "claim", "status.", "What", "is", "my",
                   "deductible">>
uAndCopay == <<"HSA", "balance", "and", "copay">>
uCopayAlso == <<"copay", "and", "also", "what", "is", "my", "deductible">>
uCopay == <<"copay">>
uDme == <<"DME", "authorization">>
uDmeLower == <<"dme", "authorization">>
uTransfer == <<"transfer", "200", "of", "my", "$500">>
uCoveredOn == <<"born", "02/03/1990", "am", "I", "covered", "on",
                "01/15/2024">>

Utterances ==
    {uRefill, uRefillUpper, uThat, uHsa, uMulti, uPay50, uPay75, uBenefits}

(***************************************************************************)
(* The intent catalog: some entries of INTENT_KNOWLEDGE_BASE, one record   *)
(* per training utterance, in the order _build_kb visits them.             *)
(***************************************************************************)
Meta(id, name, cat, agent, prio, text) ==
    [intent_id |-> id, intent_name |-> name, category |-> cat,
     agent_routing |-> agent, priority |-> prio, text |-> text]

KnowledgeBase ==
    << Meta("INT-PHR-0001", "pharmacy", "healthcare", "PharmacyAgent", 2,
            <<"I", "need", "to", "refill", "my", "prescription">>),
       Meta("INT-PHR-0001", "pharmacy", "healthcare", "PharmacyAgent", 2,
            <<"Drug", "formulary">>),
       Meta("INT-ELG-0013", "eligibility", "benefits", "EligibilityAgent", 1,
            <<"Am", "I", "covered">>),
       Meta("INT-DED-0015", "deductible", "benefits", "DeductibleAgent", 1,
            <<"What", "is", "my", "deductible">>),
       Meta("INT-DED-0015", "deductible", "benefits", "DeductibleAgent", 1,
            <<"Deductible", "status">>),
       Meta("INT-COP-0017", "copay", "benefits", "CopayAgent", 1,
            <<"What", "is", "my", "copay">>),
       Meta("INT-HSA-0028", "hsa", "financial", "HSAAgent", 2,
            <<"HSA", "balance">>),
       Meta("INT-CLM-0035", "claims", "claims", "ClaimsAgent", 1,
            <<"Check", "my", "claim", "status">>) >>

\* the entries of INTENT_KNOWLEDGE_BASE around a phrase that two intents
\* list: "DME authorization" of precert and of durableMedicalEquipment
PhraseCatalog ==
    << Meta("INT-PHR-0001", "pharmacy", "healthcare", "PharmacyAgent", 2,
            <<"I", "need", "to", "refill", "my", "prescription">>),
       Meta("INT-PRC-0002", "precert", "healthcare", "PrecertAgent", 2,
            <<"DME", "authorization">>),
       Meta("INT-DME-0026", "durableMedicalEquipment", "benefits",
            "DMEAgent", 2,
            <<"DME", "authorization">>) >>

\* what _classify_single answers with when nothing was found
FallbackMeta ==
    [intent_id |-> "UNK", agent_routing |-> "FallbackAgent",
     category |-> "unknown", priority |-> 5]

(***************************************************************************)
(* EmbeddingGenerator.                                                     *)
(***************************************************************************)
\* hash(text) % (2**32), on SeedBits bits
HashModulus == 2 ^ SeedBits

\* the keys of the string hash: one is drawn when the interpreter starts
HashKeys == {4, 37}

\* hash(text) of a str: a keyed hash of the characters
RECURSIVE HashFrom(_, _)
HashFrom(h, text) ==
    IF text = <<>> THEN h
    ELSE HashFrom((h * 31 + TokenCode(Head(text))) % HashModulus, Tail(text))

Hash(text, key) == HashFrom(7 + 1000003 * key, text)

\* cosines of the multiples of 15 degrees, in thousandths
CosTable ==
    <<1000, 966, 866, 707, 500, 259, 0, -259, -500, -707, -866, -966,
      -1000, -966, -866, -707, -500, -259, 0, 259, 500, 707, 866, 966>>

\* np.random.seed(seed); np.random.randn(dim), normalised: the direction of
\* the vector drawn from the seed
RandomUnit(seed) == (seed + seed \div Len(CosTable)) % Len(CosTable)

\* EmbeddingGenerator.generate
Generate(text, key) == RandomUnit(Hash(Lower(text), key) % HashModulus)

\* numpy's global random generator, which generate seeds and then draws
\* from.  np.random.seed(hash(text) % (2**32)), text lower-cased:
Seeded(text, key) ==
    [seed |-> Hash(Lower(text), key) % HashModulus, drawn |-> 0]

\* np.random.randn(dim), normalised: the next vector of the stream of the
\* seed.  The first is RandomUnit(seed); the ones after it are other
\* vectors of the same stream
Drawn(rng) == RandomUnit((rng.seed + rng.drawn) % HashModulus)

\* the generator after a vector is drawn
AfterDraw(rng) == [rng EXCEPT !.drawn = @ + 1]

\* the normalised dot product of two unit vectors
Cosine(a, b) == CosTable[((a - b) % Len(CosTable)) + 1]

(***************************************************************************)
(* InMemoryVectorStore.  A store is the record of its two parallel lists.  *)
(***************************************************************************)
EmptyStore == [vectors |-> <<>>, metadata |-> <<>>]

\* InMemoryVectorStore.add
StoreAdd(store, vectors, metadata) ==
    [vectors |-> store.vectors \o vectors,
     metadata |-> store.metadata \o metadata]

\* np.argsort(sims): the positions in ascending order of similarity.  The
\* default sort is not a stable one, so the order of equal similarities is
\* the library's: earlier position first when stable, later first otherwise.
RECURSIVE ArgsortFrom(_, _, _)
ArgsortFrom(sims, left, stable) ==
    IF left = {} THEN <<>>
    ELSE LET Before(i, j) ==
                 \/ sims[i] < sims[j]
                 \/ sims[i] = sims[j] /\ (IF stable THEN i < j ELSE i > j)
             first == CHOOSE i \in left :
                          \A j \in left \ {i} : Before(i, j)
         IN  <<first>> \o ArgsortFrom(sims, left \ {first}, stable)

Argsort(sims, stable) == ArgsortFrom(sims, DOMAIN sims, stable)

\* top_indices of InMemoryVectorStore.search: the positions of the entries
\* it returns, in the order it returns them
TopIndices(store, query, top_k, stable) ==
    IF store.vectors = <<>> THEN <<>>
    ELSE Reverse(PySliceFrom(
             Argsort([i \in 1..Len(store.vectors) |->
                         Cosine(store.vectors[i], query)], stable),
             -top_k))

\* InMemoryVectorStore.search: the (metadata, similarity) pairs of the
\* top_k most similar entries, most similar first
Search(store, query, top_k, stable) ==
    IF store.vectors = <<>> THEN <<>>
    ELSE LET similarities ==
                 [i \in 1..Len(store.vectors) |->
                     Cosine(store.vectors[i], query)]
             top_indices ==
                 Reverse(PySliceFrom(Argsort(similarities, stable), -top_k))
         IN  [r \in 1..Len(top_indices) |->
                 [meta |-> store.metadata[top_indices[r]],
                  score |-> similarities[top_indices[r]]]]

(***************************************************************************)
(* SlotFiller.                                                             *)
(***************************************************************************)
\* re.search(pattern, utterance).group(1) for the pairs that match, with
\* the flags the code passes for the pattern; every other pair of a pattern
\* below and an utterance defined above does not match
ReTable ==
    <<"(?:for|refill|get|need)\\s+(\\w+(?:\\s+\\w+)?)", uRefill>> :> "to refill"
    @@ <<"(?:for|refill|get|need)\\s+(\\w+(?:\\s+\\w+)?)", uRefillUpper>> :> "TO REFILL"
    @@ <<"(?:for|refill|get|need)\\s+(\\w+(?:\\s+\\w+)?)", uMulti>> :> "to refill"
    @@ <<"(?:for|refill|get|need)\\s+(\\w+(?:\\s+\\w+)?)", uThree>> :> "to refill"
    @@ <<"(?:for|refill|get|need)\\s+(\\w+(?:\\s+\\w+)?)", uAndI>> :> "to refill"
    @@ <<"(\\w+)\\s+(?:prescription|medication|drug)", uRefill>> :> "my"
    @@ <<"(\\w+)\\s+(?:prescription|medication|drug)", uRefillUpper>> :> "MY"
    @@ <<"(\\w+)\\s+(?:prescription|medication|drug)", uMulti>> :> "my"
    @@ <<"(\\w+)\\s+(?:prescription|medication|drug)", uThree>> :> "my"
    @@ <<"(\\w+)\\s+(?:prescription|medication|drug)", uAndI>> :> "my"
    @@ <<"(?:from|at|with)\\s+(?:Dr\\.?\\s+)?([A-Z][a-z]+(?:\\s+[A-Z][a-z]+)?)", uThat>> :> "about that"
    @@ <<"(?:from|at|with)\\s+(?:Dr\\.?\\s+)?([A-Z][a-z]+(?:\\s+[A-Z][a-z]+)?)", uMulti>> :> "is my"
    @@ <<"(?:from|at|with)\\s+(?:Dr\\.?\\s+)?([A-Z][a-z]+(?:\\s+[A-Z][a-z]+)?)", uThree>> :> "is my"
    @@ <<"(?:from|at|with)\\s+(?:Dr\\.?\\s+)?([A-Z][a-z]+(?:\\s+[A-Z][a-z]+)?)", uTwoSentences>> :> "is my"
    @@ <<"(?:from|at|with)\\s+(?:Dr\\.?\\s+)?([A-Z][a-z]+(?:\\s+[A-Z][a-z]+)?)", uCopayAlso>> :> "is my"
    @@ <<"(balance|contribution|withdrawal|transfer|investment)", uHsa>> :> "balance"
    @@ <<"(balance|contribution|withdrawal|transfer|investment)", uThree>> :> "balance"
    @@ <<"(balance|contribution|withdrawal|transfer|investment)", uAndI>> :> "balance"
    @@ <<"(balance|contribution|withdrawal|transfer|investment)", uAndCopay>> :> "balance"
    @@ <<"(balance|contribution|withdrawal|transfer|investment)", uTransfer>> :> "transfer"
    @@ <<"(contribute|withdraw|transfer)\\s+", uTransfer>> :> "transfer"
    @@ <<"(?:from|on|dated?)\\s+(\\d{1,2}[/-]\\d{1,2}[/-]\\d{2,4})", uCoveredOn>> :> "01/15/2024"
    @@ <<"(?:as of|on|starting)\\s+(\\d{1,2}[/-]\\d{1,2}[/-]\\d{2,4})", uCoveredOn>> :> "01/15/2024"
    @@ <<"(\\d{1,2}[/-]\\d{1,2}[/-]\\d{2,4})", uCoveredOn>> :> "02/03/1990"
    @@ <<"\\$?\\s*(\\d+(?:,\\d{3})*(?:\\.\\d{2})?)", uTransfer>> :> "200"
    @@ <<"\\$?\\s*(\\d+(?:,\\d{3})*(?:\\.\\d{2})?)", uCoveredOn>> :> "02"
    @@ <<"\\$\\s*(\\d+(?:,\\d{3})*(?:\\.\\d{2})?)", uTransfer>> :> "500"
    @@ <<"\\$?\\s*(\\d+(?:,\\d{3})*(?:\\.\\d{2})?)", uPay50>> :> "50"
    @@ <<"\\$?\\s*(\\d+(?:,\\d{3})*(?:\\.\\d{2})?)", uPay75>> :> "75"
    @@ <<"\\$\\s*(\\d+(?:,\\d{3})*(?:\\.\\d{2})?)", uPay50>> :> "50"
    @@ <<"\\$\\s*(\\d+(?:,\\d{3})*(?:\\.\\d{2})?)", uPay75>> :> "75"
    @@ <<"\\b(\\d{5})(?:-\\d{4})?\\b", uPay75>> :> "12345"

ReMatches(pattern, utterance) == <<pattern, utterance>> \in DOMAIN ReTable

ReGroup1(pattern, utterance) == ReTable[<<pattern, utterance>>]

SlotConfig(name, type, patterns) ==
    [name |-> name, type |-> type, patterns |-> patterns]

\* SLOT_DEFINITIONS of the intents of KnowledgeBase, the slots of an intent
\* in the order of the dict; an intent that is no key has no slots
SlotDefinitions(intent) ==
    CASE intent = "pharmacy" ->
           << SlotConfig("medication_name", "medication",
                  <<"(?:for|refill|get|need)\\s+(\\w+(?:\\s+\\w+)?)",
                    "(\\w+)\\s+(?:prescription|medication|drug)">>),
              SlotConfig("quantity", "number",
                  <<"(\\d+)\\s*(?:day|days|month|months)\\s+supply",
                    "(\\d+)\\s+(?:pills|tablets|capsules)">>),
              SlotConfig("pharmacy_name", "pharmacy",
                  <<"(?:at|from|nearest)\\s+(CVS|Walgreens|Rite Aid|Costco|Walmart)",
                    "(CVS|Walgreens|Rite Aid)">>) >>
      [] intent = "claims" ->
           << SlotConfig("claim_number", "claim_id",
                  <<"claim\\s*(?:#|number|id)?\\s*[:\\s]?\\s*(\\w{8,15})",
                    "(\\d{10,15})">>),
              SlotConfig("date_of_service", "date",
                  <<"(?:from|on|dated?)\\s+(\\d{1,2}[/-]\\d{1,2}[/-]\\d{2,4})",
                    "((?:Jan|Feb|Mar|Apr|May|Jun|Jul|Aug|Sep|Oct|Nov|Dec)\\w*\\s+\\d{1,2}(?:,?\\s+\\d{4})?)">>),
              SlotConfig("provider_name", "provider",
                  <<"(?:from|at|with)\\s+(?:Dr\\.?\\s+)?([A-Z][a-z]+(?:\\s+[A-Z][a-z]+)?)",
                    "(?:doctor|physician|provider)\\s+([A-Z][a-z]+)">>) >>
      [] intent = "deductible" ->
           << SlotConfig("plan_type", "plan_type",
                  <<"(individual|family)\\s+(?:deductible|plan)",
                    "(in[- ]?network|out[- ]?of[- ]?network)">>),
              SlotConfig("year", "year",
                  <<"(?:for|in)\\s+(20\\d{2})",
                    "(this year|last year|next year)">>) >>
      [] intent = "eligibility" ->
           << SlotConfig("member_type", "member_type",
                  <<"(?:for\\s+)?(?:my\\s+)?(spouse|child|dependent|self)",
                    "(family|individual)\\s+coverage">>),
              SlotConfig("date", "date",
                  <<"(?:as of|on|starting)\\s+(\\d{1,2}[/-]\\d{1,2}[/-]\\d{2,4})">>) >>
      [] intent = "hsa" ->
           << SlotConfig("action", "action",
                  <<"(balance|contribution|withdrawal|transfer|investment)",
                    "(contribute|withdraw|transfer)\\s+">>),
              SlotConfig("amount", "currency",
                  <<"\\$?\\s*(\\d+(?:,\\d{3})*(?:\\.\\d{2})?)",
                    "(\\d+)\\s+dollars">>) >>
      [] OTHER -> <<>>

SlotValue(value, type, confidence) ==
    [value |-> value, type |-> type, confidence |-> confidence,
     source |-> "extracted"]

\* the first pattern of the slot that matches, 0 when none does
FirstMatch(patterns, utterance) ==
    IF \E i \in 1..Len(patterns) : ReMatches(patterns[i], utterance)
    THEN CHOOSE i \in 1..Len(patterns) :
             /\ ReMatches(patterns[i], utterance)
             /\ \A j \in 1..(i - 1) : ~ReMatches(patterns[j], utterance)
    ELSE 0

\* the loop of extract_slots over the slots of the intent
IntentSlots(utterance, intent) ==
    LET defs == SlotDefinitions(intent)
        found == {i \in 1..Len(defs) :
                     FirstMatch(defs[i].patterns, utterance) # 0}
        Of(name) == CHOOSE i \in found : defs[i].name = name
    IN  [name \in {defs[i].name : i \in found} |->
            SlotValue(ReGroup1(defs[Of(name)].patterns[
                          FirstMatch(defs[Of(name)].patterns, utterance)],
                          utterance),
                      defs[Of(name)].type, 900)]

\* one entity of _extract_common_slots: the slot when the pattern matches
CommonSlot(name, type, confidence, pattern, utterance) ==
    IF ReMatches(pattern, utterance)
    THEN name :> SlotValue(ReGroup1(pattern, utterance), type, confidence)
    ELSE EmptyDict

\* SlotFiller._extract_common_slots: its dict is filled in this order, and
\* its test `"date" not in slots` reads the dict it is filling
ExtractCommonSlots(utterance) ==
    LET member == CommonSlot("member_id", "member_id", 950,
                      "(?:member\\s*(?:id|#|number)?|id)[:\\s]*([A-Z0-9]{8,12})",
                      utterance)
        phone == DictMerge(member,
                     CommonSlot("phone", "phone", 900,
                         "(\\d{3}[-.]?\\d{3}[-.]?\\d{4})", utterance))
        date == IF "date" \notin DOMAIN phone
                THEN DictMerge(phone,
                         CommonSlot("date", "date", 800,
                             "(\\d{1,2}[/-]\\d{1,2}[/-]\\d{2,4})", utterance))
                ELSE phone
        amount == DictMerge(date,
                      CommonSlot("amount", "currency", 900,
                          "\\$\\s*(\\d+(?:,\\d{3})*(?:\\.\\d{2})?)", utterance))
    IN  DictMerge(amount,
            CommonSlot("zip_code", "location", 850,
                "\\b(\\d{5})(?:-\\d{4})?\\b", utterance))

\* SlotFiller.extract_slots: slots.update(common_slots)
ExtractSlots(utterance, intent) ==
    DictMerge(IntentSlots(utterance, intent), ExtractCommonSlots(utterance))

\* the keys of the dict of _extract_common_slots, in the order it fills them
CommonNames == <<"member_id", "phone", "date", "amount", "zip_code">>

\* the names extract_slots assigns in its dict `slots`, in the order it
\* assigns them: the loop over the slots of the intent, then update
SlotWrites(utterance, intent) ==
    LET defs == SlotDefinitions(intent)
        names == [i \in 1..Len(defs) |-> defs[i].name]
        ByIntent(name) == name \in DOMAIN IntentSlots(utterance, intent)
        ByCommon(name) == name \in DOMAIN ExtractCommonSlots(utterance)
    IN  SelectSeq(names, ByIntent) \o SelectSeq(CommonNames, ByCommon)

\* SlotFiller._get_slot_prompt: the slots with a prompt of their own
SlotPrompt(slot_name) ==
    CASE slot_name = "medication_name" -> "What medication do you need help with?"
      [] slot_name = "claim_number" -> "Can you provide the claim number?"
      [] slot_name = "date_of_service" -> "What was the date of service?"
      [] slot_name = "provider_name" -> "What is the provider or doctor's name?"
      [] slot_name = "plan_type" -> "Is this for individual or family coverage?"
      [] slot_name = "member_type" -> "Is this for yourself or a dependent?"
      [] slot_name = "amount" -> "What amount would you like to contribute/withdraw?"
      [] OTHER -> <<"Please provide the ", slot_name, ".">>

\* SlotFiller.get_missing_required_slots
RECURSIVE MissingFrom(_, _)
MissingFrom(defs, filled_slots) ==
    IF defs = <<>> THEN <<>>
    ELSE (IF Head(defs).name \notin DOMAIN filled_slots
          THEN << [slot_name |-> Head(defs).name, type |-> Head(defs).type,
                   prompt |-> SlotPrompt(Head(defs).name)] >>
          ELSE <<>>) \o MissingFrom(Tail(defs), filled_slots)

\* get_missing_required_slots, had it looked at no filled slot
GetMissingOfAllSlots(intent, filled_slots) ==
    MissingFrom(SlotDefinitions(intent), EmptyDict)

GetMissingRequiredSlots(intent, filled_slots) ==
    MissingFrom(SlotDefinitions(intent), filled_slots)

(***************************************************************************)
(* MultiIntentDetector.  A phrase of a pattern is the sequence of its      *)
(* lower-case words; the patterns are matched ignoring case.               *)
(***************************************************************************)
\* the phrase occupies the tokens i .. i + Len(phrase) - 1 of the text
PhraseAt(text, phrase, i) ==
    /\ i >= 1
    /\ i + Len(phrase) - 1 <= Len(text)
    /\ \A k \in 1..Len(phrase) : LowerToken(text[i + k - 1]) = phrase[k]

\* MULTI_INTENT_SIGNALS: the alternatives of the three patterns, each
\* between word boundaries
MultiIntentSignals ==
    << {<<"and", "also">>, <<"and">>, <<"also">>, <<"plus">>,
        <<"as", "well", "as">>, <<"additionally">>, <<"another", "thing">>,
        <<"one", "more", "thing">>},
       {<<"oh", "and">>, <<"btw">>, <<"by", "the", "way">>,
        <<"while", "i'm", "here">>, <<"while", "you're", "at", "it">>},
       {<<"first">>, <<"second">>, <<"third">>, <<"lastly">>, <<"finally">>,
        <<"next">>} >>

\* MultiIntentDetector.has_multiple_intents
HasMultipleIntents(utterance) ==
    \E p \in 1..Len(MultiIntentSignals) :
        \E phrase \in MultiIntentSignals[p] :
            \E i \in 1..(Len(utterance) - Len(phrase) + 1) :
                PhraseAt(utterance, phrase, i)

\* split_patterns, in their order: the phrase between white space, and the
\* token the lookahead (?=I\s+) wants after it ("" when there is none).
\* The sixth pattern, SentenceEnd, is the full stop that ends a word, the
\* white space after it and a lookahead for a letter: [A-Z] matches a
\* letter of either case, for the pattern is used with re.IGNORECASE.
SplitPattern(phrase, ahead) == [phrase |-> phrase, ahead |-> ahead]

SentenceEnd == SplitPattern(<<>>, "[A-Z]")

\* the tokens that end with a full stop, without it
StopTable == [t \in {"status."} |-> "status"]

\* the tokens that do not begin with a letter
NoLetterFirst ==
    {"$50", "$75", "12345", "200", "$500", "02/03/1990", "01/15/2024"}

SplitPatterns ==
    << SplitPattern(<<"and", "also">>, ""),
       SplitPattern(<<"also">>, ""),
       SplitPattern(<<"and">>, "i"),
       SplitPattern(<<"plus">>, ""),
       SplitPattern(<<"as", "well", "as">>, ""),
       SentenceEnd,
       SplitPattern(<<"oh", "and">>, ""),
       SplitPattern(<<"btw">>, ""),
       SplitPattern(<<"by", "the", "way">>, "") >>

\* the pattern matches with its phrase at token i: white space before it
\* and after it, and the lookahead
SplitMatchAt(seg, pat, i) ==
    IF pat = SentenceEnd
    THEN /\ i > 1
         /\ seg[i - 1] \in DOMAIN StopTable
         /\ seg[i] \notin NoLetterFirst
    ELSE /\ i > 1
         /\ PhraseAt(seg, pat.phrase, i)
         /\ i + Len(pat.phrase) <= Len(seg)
         /\ pat.ahead # "" =>
               /\ LowerToken(seg[i + Len(pat.phrase)]) = pat.ahead
               /\ i + Len(pat.phrase) < Len(seg)

\* the part of seg before a match at token i: tokens from..(i - 1), the
\* last of them without the full stop that SentenceEnd has matched
PartBefore(seg, pat, from, i) ==
    IF pat = SentenceEnd
    THEN SubSeq(seg, from, i - 2) \o <<StopTable[seg[i - 1]]>>
    ELSE SubSeq(seg, from, i - 1)

\* re.split(pattern, seg): the parts between the matches, found from the
\* left; from is the first token of the part being read and i the next
\* place a match may start (a match needs white space before it, which the
\* match before it has consumed)
RECURSIVE ReSplitFrom(_, _, _, _)
ReSplitFrom(seg, pat, from, i) ==
    IF i > Len(seg) THEN <<SubSeq(seg, from, Len(seg))>>
    ELSE IF SplitMatchAt(seg, pat, i)
         THEN <<PartBefore(seg, pat, from, i)>>
              \o ReSplitFrom(seg, pat, i + Len(pat.phrase),
                             i + Len(pat.phrase) + 1)
         ELSE ReSplitFrom(seg, pat, from, i + 1)

ReSplit(seg, pat) == ReSplitFrom(seg, pat, 1, 2)

\* one pass of split_utterance: every segment split by the pattern
RECURSIVE SplitAll(_, _)
SplitAll(segments, pat) ==
    IF segments = <<>> THEN <<>>
    ELSE ReSplit(Head(segments), pat) \o SplitAll(Tail(segments), pat)

RECURSIVE SplitPasses(_, _)
SplitPasses(segments, patterns) ==
    IF patterns = <<>> THEN segments
    ELSE SplitPasses(SplitAll(segments, Head(patterns)), Tail(patterns))

\* the segments of at least two words
RECURSIVE LongSegments(_)
LongSegments(segments) ==
    IF segments = <<>> THEN <<>>
    ELSE (IF Len(Head(segments)) >= 2 THEN <<Head(segments)>> ELSE <<>>)
         \o LongSegments(Tail(segments))

\* split_utterance, had it kept the segments of one word
SplitUtteranceUnfiltered(utterance) ==
    SplitPasses(<<utterance>>, SplitPatterns)

\* MultiIntentDetector.split_utterance
SplitUtterance(utterance) ==
    LongSegments(SplitPasses(<<utterance>>, SplitPatterns))

(***************************************************************************)
(* DisambiguationEngine.                                                   *)
(***************************************************************************)
\* INTENT_DESCRIPTIONS.get(intent, intent)
IntentDescription(intent) ==
    CASE intent = "pharmacy" -> "prescription or medication refills"
      [] intent = "claims" -> "claim status or submission"
      [] intent = "eligibility" -> "enrollment or coverage status"
      [] intent = "deductible" -> "deductible amount or status"
      [] intent = "copay" -> "copay amounts"
      [] intent = "hsa" -> "Health Savings Account (HSA)"
      [] OTHER -> intent

\* DisambiguationEngine.generate_disambiguation, had it asked whenever
\* there are two candidates, however far apart
GenerateDisambiguationAnyGap(candidates, utterance) ==
    IF Len(candidates) < 2 THEN [needed |-> FALSE]
    ELSE LET shown == PySliceTo(candidates, 3)
             options ==
                 [i \in 1..Len(shown) |->
                     [option_number |-> i,
                      intent |-> shown[i].intent,
                      description |-> IntentDescription(shown[i].intent),
                      agent |-> shown[i].agent]]
         IN  [needed |-> TRUE,
              reason |-> "ambiguous_intent",
              prompt |-> [template |-> IF Len(options) = 2
                                       THEN "Are you asking about {} or {}?"
                                       ELSE "Are you asking about {}, {}, or {}?",
                          descriptions |->
                              [i \in 1..Len(options) |-> options[i].description]],
              options |-> options,
              original_utterance |-> utterance]

\* DisambiguationEngine.generate_disambiguation; the prompt is the sentence
\* template and the descriptions it is filled with
GenerateDisambiguation(candidates, utterance) ==
    IF Len(candidates) < 2 THEN [needed |-> FALSE]
    ELSE IF candidates[1].score - candidates[2].score > ClearWinnerGap
    THEN [needed |-> FALSE, reason |-> "clear_winner"]
    ELSE LET shown == PySliceTo(candidates, 3)
             options ==
                 [i \in 1..Len(shown) |->
                     [option_number |-> i,
                      intent |-> shown[i].intent,
                      description |-> IntentDescription(shown[i].intent),
                      agent |-> shown[i].agent]]
         IN  [needed |-> TRUE,
              reason |-> "ambiguous_intent",
              prompt |-> [template |-> IF Len(options) = 2
                                       THEN "Are you asking about {} or {}?"
                                       ELSE "Are you asking about {}, {}, or {}?",
                          descriptions |->
                              [i \in 1..Len(options) |-> options[i].description]],
              options |-> options,
              original_utterance |-> utterance]

(***************************************************************************)
(* SessionManager.  The store is the record of its two defaultdicts, each  *)
(* a function whose domain is the set of its keys.  A turn is kept without *)
(* its wall-clock "timestamp", which nothing reads.                        *)
(***************************************************************************)
SessionIds == {"s1", "s2"}

EmptySessions == [sessions |-> EmptyDict, slot_memory |-> EmptyDict]

\* d.get(key, default)
DictGet(d, key, default) == IF key \in DOMAIN d THEN d[key] ELSE default

\* d[key] of a defaultdict: the key is created with the default
DefaultDictTouch(d, key, default) ==
    IF key \in DOMAIN d THEN d ELSE d @@ (key :> default)

\* the truth value of a dict or a list: the empty one is falsy.  None, the
\* default of the optional arguments, is falsy too and is replaced by the
\* empty value wherever it is read (`slots or {}`), so it is passed as the
\* empty value
Truthy(x) == DOMAIN x # {}

\* SessionManager.add, had it replaced the slot memory of the session by
\* the slots of the turn instead of updating it
SessionAddForgets(sm, session_id, utterance, intent, confidence, slots, multi_intents) ==
    LET entry == [utterance |-> utterance,
                  intent |-> intent,
                  confidence |-> confidence,
                  slots |-> IF Truthy(slots) THEN slots ELSE EmptyDict,
                  multi_intents |-> IF Truthy(multi_intents)
                                    THEN multi_intents ELSE <<>>]
        touched == DefaultDictTouch(sm.sessions, session_id, <<>>)
        appended == [touched EXCEPT ![session_id] = Append(@, entry)]
        memory ==
            IF Truthy(slots)
            THEN LET m == DefaultDictTouch(sm.slot_memory, session_id,
                                           EmptyDict)
                 IN  [m EXCEPT ![session_id] = slots]
            ELSE sm.slot_memory
        trimmed ==
            IF Len(appended[session_id]) > HistoryCap
            THEN [appended EXCEPT
                     ![session_id] = PySliceFrom(@, -HistoryCap)]
            ELSE appended
    IN  [sessions |-> trimmed, slot_memory |-> memory]

\* SessionManager.add, had it dropped the newest turn when the history is
\* full instead of the oldest
SessionAddKeepsOldest(sm, session_id, utterance, intent, confidence, slots, multi_intents) ==
    LET entry == [utterance |-> utterance,
                  intent |-> intent,
                  confidence |-> confidence,
                  slots |-> IF Truthy(slots) THEN slots ELSE EmptyDict,
                  multi_intents |-> IF Truthy(multi_intents)
                                    THEN multi_intents ELSE <<>>]
        touched == DefaultDictTouch(sm.sessions, session_id, <<>>)
        appended == [touched EXCEPT ![session_id] = Append(@, entry)]
        memory ==
            IF Truthy(slots)
            THEN LET m == DefaultDictTouch(sm.slot_memory, session_id,
                                           EmptyDict)
                 IN  [m EXCEPT ![session_id] = DictMerge(@, slots)]
            ELSE sm.slot_memory
        trimmed ==
            IF Len(appended[session_id]) > HistoryCap
            THEN [appended EXCEPT
                     ![session_id] = PySliceTo(@, HistoryCap)]
            ELSE appended
    IN  [sessions |-> trimmed, slot_memory |-> memory]

\* SessionManager.add
SessionAdd(sm, session_id, utterance, intent, confidence, slots, multi_intents) ==
    LET entry == [utterance |-> utterance,
                  intent |-> intent,
                  confidence |-> confidence,
                  slots |-> IF Truthy(slots) THEN slots ELSE EmptyDict,
                  multi_intents |-> IF Truthy(multi_intents)
                                    THEN multi_intents ELSE <<>>]
        touched == DefaultDictTouch(sm.sessions, session_id, <<>>)
        appended == [touched EXCEPT ![session_id] = Append(@, entry)]
        memory ==
            IF Truthy(slots)
            THEN LET m == DefaultDictTouch(sm.slot_memory, session_id,
                                           EmptyDict)
                 IN  [m EXCEPT ![session_id] = DictMerge(@, slots)]
            ELSE sm.slot_memory
        trimmed ==
            IF Len(appended[session_id]) > HistoryCap
            THEN [appended EXCEPT
                     ![session_id] = PySliceFrom(@, -HistoryCap)]
            ELSE appended
    IN  [sessions |-> trimmed, slot_memory |-> memory]

\* SessionManager.add, statement by statement.  The entry it builds:
AddEntry(utterance, intent, confidence, slots, multi_intents) ==
    [utterance |-> utterance,
     intent |-> intent,
     confidence |-> confidence,
     slots |-> IF Truthy(slots) THEN slots ELSE EmptyDict,
     multi_intents |-> IF Truthy(multi_intents) THEN multi_intents ELSE <<>>]

\* self.sessions[session_id].append(entry)
AddAppend(sm, session_id, entry) ==
    [sm EXCEPT !.sessions =
        [DefaultDictTouch(@, session_id, <<>>) EXCEPT
            ![session_id] = Append(@, entry)]]

\* if slots: self.slot_memory[session_id].update(slots)
AddRemember(sm, session_id, slots) ==
    IF Truthy(slots)
    THEN [sm EXCEPT !.slot_memory =
             [DefaultDictTouch(@, session_id, EmptyDict) EXCEPT
                 ![session_id] = DictMerge(@, slots)]]
    ELSE sm

\* len(self.sessions[session_id]) > 10
AddOverCap(sm, session_id) ==
    Len(DictGet(sm.sessions, session_id, <<>>)) > HistoryCap

\* self.sessions[session_id][-10:], the right-hand side of the assignment
AddSlice(sm, session_id) ==
    PySliceFrom(DictGet(sm.sessions, session_id, <<>>), -HistoryCap)

\* self.sessions[session_id] = ..., the assignment
AddAssign(sm, session_id, kept) ==
    [sm EXCEPT !.sessions = (session_id :> kept) @@ @]

\* SessionManager.get
SessionGet(sm, session_id, n) ==
    PySliceFrom(DictGet(sm.sessions, session_id, <<>>), -n)

\* SessionManager.get_recent_intents
GetRecentIntents(sm, session_id, n) ==
    LET history == SessionGet(sm, session_id, n)
    IN  [i \in 1..Len(history) |-> history[i].intent]

\* SessionManager.get_slot_memory
GetSlotMemory(sm, session_id) == DictGet(sm.slot_memory, session_id, EmptyDict)

\* the session manager after get, had it read self.sessions[session_id]:
\* reading a defaultdict by index creates the key
AfterGetIndexed(sm, session_id) ==
    [sm EXCEPT !.sessions = DefaultDictTouch(@, session_id, <<>>)]

\* the session manager after get and get_recent_intents:
\* self.sessions.get(session_id, []) creates no key
AfterGet(sm, session_id) == sm

\* the session manager after get_slot_memory, had it read
\* self.slot_memory[session_id]: reading a defaultdict by index creates
\* the key
AfterGetSlotMemoryIndexed(sm, session_id) ==
    [sm EXCEPT !.slot_memory = DefaultDictTouch(@, session_id, EmptyDict)]

\* the session manager after get_slot_memory:
\* self.slot_memory.get(session_id, {}) creates no key
AfterGetSlotMemory(sm, session_id) == sm

\* get_pending_intents, had it not skipped the first sub-intent
GetPendingIntentsWithFirst(sm, session_id) ==
    LET history == SessionGet(sm, session_id, 1)
    IN  IF history # <<>> /\ history[Len(history)].multi_intents # <<>>
        THEN history[Len(history)].multi_intents
        ELSE <<>>

\* SessionManager.get_pending_intents
GetPendingIntents(sm, session_id) ==
    LET history == SessionGet(sm, session_id, 1)
    IN  IF history # <<>> /\ history[Len(history)].multi_intents # <<>>
        THEN PySliceFrom(history[Len(history)].multi_intents, 1)
        ELSE <<>>

\* the session manager after get_pending_intents, which reads through get
AfterGetPendingIntents(sm, session_id) == AfterGet(sm, session_id)

\* the value None, where a dict may be returned instead
None == [none |-> TRUE]

\* LocalIntentClassifier.get_next_pending_intent
GetNextPendingIntent(sm, session_id) ==
    LET pending == GetPendingIntents(sm, session_id)
    IN  IF pending # <<>>
        THEN [intent |-> pending[1], remaining_count |-> Len(pending) - 1]
        ELSE None

(***************************************************************************)
(* The session tools of the skill interface, on the session manager of the *)
(* classifier.                                                             *)
(***************************************************************************)
\* del d[key]
DictDel(d, key) == [k \in (DOMAIN d) \ {key} |-> d[k]]

\* the intents of a history, each once, in the order they first appear:
\* list(dict.fromkeys(intents))
RECURSIVE UniqueIntents(_, _)
UniqueIntents(history, seen) ==
    IF history = <<>> THEN <<>>
    ELSE IF Head(history).intent \in seen
         THEN UniqueIntents(Tail(history), seen)
         ELSE <<Head(history).intent>>
              \o UniqueIntents(Tail(history), seen \cup {Head(history).intent})

\* _summarize_context: the sentence it formats, as its parts
SummarizeContext(history) ==
    IF history = <<>> THEN [text |-> "New conversation - no prior context"]
    ELSE LET unique_intents == UniqueIntents(history, {})
         IN  IF Len(unique_intents) = 1
             THEN [text |-> "User has been asking about",
                   intent |-> unique_intents[1],
                   turns |-> Len(history)]
             ELSE [text |-> "User has discussed:",
                   intents |-> unique_intents,
                   turns |-> Len(history)]

\* get_session_context: what it returns
GetSessionContext(sm, conversation_id, turns) ==
    LET history == SessionGet(sm, conversation_id, turns)
        pending == GetPendingIntents(sm, conversation_id)
    IN  [conversation_id |-> conversation_id,
         history |-> history,
         turn_count |-> Len(history),
         recent_intents |-> [i \in 1..Len(history) |-> history[i].intent],
         slot_memory |-> GetSlotMemory(sm, conversation_id),
         pending_intents |-> pending,
         has_pending |-> Len(pending) > 0,
         context_summary |-> SummarizeContext(history)]

\* the session manager after get_session_context: it reads the history,
\* the slot memory and the pending intents
AfterGetSessionContext(sm, conversation_id) ==
    AfterGetPendingIntents(
        AfterGetSlotMemory(AfterGet(sm, conversation_id), conversation_id),
        conversation_id)

\* the session manager after resolve_disambiguation: no statement of it
\* that touches the session manager completes
AfterResolveDisambiguation(sm, conversation_id) == sm

\* LocalIntentClassifier.handle_disambiguation_response: what it returns
HandleDisambiguationResponse(sm, session_id, selected_option) ==
    IF SessionGet(sm, session_id, 1) = <<>>
    THEN [error |-> "No disambiguation pending"]
    ELSE [status |-> "disambiguation_resolved",
          selected_option |-> selected_option,
          session_id |-> session_id]

\* clear_session, had it cleared the history only
ClearSessionHistoryOnly(sm, conversation_id) ==
    [sessions |-> DictDel(sm.sessions, conversation_id),
     slot_memory |-> sm.slot_memory]

\* clear_session: the session manager it leaves
ClearSession(sm, conversation_id) ==
    [sessions |-> DictDel(sm.sessions, conversation_id),
     slot_memory |-> DictDel(sm.slot_memory, conversation_id)]

(***************************************************************************)
(* LocalIntentClassifier.  Its operations read the vector store, the       *)
(* session manager sm, and the platform env: the key of the interpreter's  *)
(* string hash and whether the library's sort keeps equal keys in order.   *)
(***************************************************************************)
\* LocalIntentClassifier._build_kb over the catalog kb
BuildKb(kb, key) ==
    StoreAdd(EmptyStore,
             [i \in 1..Len(kb) |-> Generate(kb[i].text, key)],
             kb)

\* the intent names of the hits, each once, in the order they first appear:
\* the key order of the dicts filled while reading the hits
RECURSIVE NamesInOrder(_, _)
NamesInOrder(results, seen) ==
    IF results = <<>> THEN <<>>
    ELSE IF Head(results).meta.intent_name \in seen
         THEN NamesInOrder(Tail(results), seen)
         ELSE <<Head(results).meta.intent_name>>
              \o NamesInOrder(Tail(results),
                              seen \cup {Head(results).meta.intent_name})

\* the scores of the hits of the intent, in order
RECURSIVE ScoresOf(_, _)
ScoresOf(results, intent) ==
    IF results = <<>> THEN <<>>
    ELSE (IF Head(results).meta.intent_name = intent
          THEN <<Head(results).score>> ELSE <<>>)
         \o ScoresOf(Tail(results), intent)

\* the first hit of the intent
FirstMetaOf(results, intent) ==
    results[CHOOSE i \in 1..Len(results) :
                /\ results[i].meta.intent_name = intent
                /\ \A j \in 1..(i - 1) : results[j].meta.intent_name # intent
           ].meta

\* max(votes, key=votes.get): the first key with the largest vote
BestVote(names, votes) ==
    names[CHOOSE i \in 1..Len(names) :
              /\ \A j \in 1..Len(names) : votes[names[j]] <= votes[names[i]]
              /\ \A j \in 1..(i - 1) : votes[names[j]] < votes[names[i]]]

\* the vote of _classify_single: the intent with the largest sum of scores
\* among the voters, "unknown" when there is no voter
BestIntent(voters) ==
    LET names == NamesInOrder(voters, {})
    IN  IF names # <<>>
        THEN BestVote(names,
                 [name \in Range(names) |-> SumSeq(ScoresOf(voters, name))])
        ELSE "unknown"

\* best_meta of _classify_single
BestMeta(results, best_intent) ==
    IF \E i \in 1..Len(results) : results[i].meta.intent_name = best_intent
    THEN FirstMetaOf(results, best_intent)
    ELSE FallbackMeta

\* the result of _classify_single
SingleResult(best_intent, best_meta, confidence, top_match_score) ==
    [intent |-> best_intent,
     intent_id |-> best_meta.intent_id,
     agent_routing |-> best_meta.agent_routing,
     category |-> best_meta.category,
     priority |-> best_meta.priority,
     confidence |-> confidence,
     top_match_score |-> top_match_score]

\* the confidence of _classify_single, had it been 0 when none of the
\* three best hits is of the winning intent
ConfidenceOfZeroDefault(matching) ==
    IF matching # <<>> THEN RoundDiv(SumSeq(matching), Len(matching))
    ELSE 0

\* the confidence of _classify_single: the mean of the matching scores
ConfidenceOf(matching) ==
    IF matching # <<>> THEN RoundDiv(SumSeq(matching), Len(matching))
    ELSE DefaultConfidence

\* _classify_single, from the vote on
SingleFor(results, best_intent) ==
    SingleResult(best_intent,
                 BestMeta(results, best_intent),
                 ConfidenceOf(ScoresOf(PySliceTo(results, 3), best_intent)),
                 IF results # <<>> THEN results[1].score ELSE 0)

\* _classify_single, had it taken the vote among the three best hits
SingleFromTopThree(results) ==
    SingleFor(results, BestIntent(PySliceTo(results, 3)))

\* _classify_single, from the search on
SingleFrom(results) == SingleFor(results, BestIntent(PySliceTo(results, 5)))

\* LocalIntentClassifier._classify_single
ClassifySingle(store, env, utterance) ==
    SingleFrom(Search(store, Generate(utterance, env.key), 10, env.stable))

\* sorted(items, key=average, reverse=True): a stable sort, so equal
\* averages keep the order of the dict; an average is sum / count
RECURSIVE SortByAverage(_, _, _)
SortByAverage(names, sum, count) ==
    IF names = <<>> THEN <<>>
    ELSE LET Less(a, b) == sum[a] * count[b] < sum[b] * count[a]
             first == CHOOSE i \in 1..Len(names) :
                          /\ \A j \in 1..Len(names) :
                                 ~Less(names[i], names[j])
                          /\ \A j \in 1..(i - 1) : Less(names[j], names[i])
         IN  <<names[first]>>
             \o SortByAverage(SubSeq(names, 1, first - 1)
                              \o SubSeq(names, first + 1, Len(names)),
                              sum, count)

\* one candidate of get_candidates
Candidate(intent_name, meta, sum, count) ==
    [intent |-> intent_name,
     intent_id |-> meta.intent_id,
     agent |-> meta.agent_routing,
     category |-> meta.category,
     score |-> RoundDiv(sum, count)]

\* get_candidates, from the sort on
CandidatesOf(results, sorted_intents, sum, count) ==
    [i \in 1..Len(sorted_intents) |->
        Candidate(sorted_intents[i],
                  FirstMetaOf(results, sorted_intents[i]),
                  sum[sorted_intents[i]],
                  count[sorted_intents[i]])]

\* get_candidates, from the sums and counts on
CandidatesBy(results, names, sum, count, top_k) ==
    CandidatesOf(results,
                 PySliceTo(SortByAverage(names, sum, count), top_k),
                 sum, count)

\* get_candidates, from the names of the intents hit on
CandidatesAmong(results, names, top_k) ==
    CandidatesBy(results, names,
        [name \in Range(names) |-> SumSeq(ScoresOf(results, name))],
        [name \in Range(names) |-> Len(ScoresOf(results, name))],
        top_k)

\* get_candidates, from the search on
CandidatesFrom(results, top_k) ==
    CandidatesAmong(results, NamesInOrder(results, {}), top_k)

\* LocalIntentClassifier.get_candidates
GetCandidates(store, env, utterance, top_k) ==
    CandidatesFrom(
        Search(store, Generate(utterance, env.key), 20, env.stable), top_k)

\* `sig in utterance_lower` for the tokens of the vocabulary: the pairs of
\* a signal word and a lower-case token it is a substring of, a token it is
\* the end of, and a token it is the start of
SubstringOf ==
    {<<"also", "also">>, <<"and", "and">>, <<"that", "that">>,
     <<"it", "benefits">>}

SuffixOf == {<<"what", "what">>}

PrefixOf == {<<"about", "about">>}

\* continuation_signals: the one-word signals, and the two-word signals as
\* the pair of their words
ContinuationWords == {"also", "and", "another", "same", "that", "this", "it", "more"}

ContinuationPairs == {<<"what", "about">>, <<"how", "about">>}

\* any(sig in utterance_lower for sig in continuation_signals)
HasContinuation(utterance) ==
    LET low == Lower(utterance)
    IN  \/ \E sig \in ContinuationWords : \E i \in 1..Len(low) :
               <<sig, low[i]>> \in SubstringOf
        \/ \E pair \in ContinuationPairs : \E i \in 1..(Len(low) - 1) :
               /\ <<pair[1], low[i]>> \in SuffixOf
               /\ <<pair[2], low[i + 1]>> \in PrefixOf

\* len(utterance.split()) <= 4
IsShort(utterance) == Len(utterance) <= ShortWords

\* the first candidate whose intent is a recent intent, 0 when none is
FirstRecent(candidates, recent_intents) ==
    IF \E i \in 1..Len(candidates) :
           candidates[i].intent \in Range(recent_intents)
    THEN CHOOSE i \in 1..Len(candidates) :
             /\ candidates[i].intent \in Range(recent_intents)
             /\ \A j \in 1..(i - 1) :
                    candidates[j].intent \notin Range(recent_intents)
    ELSE 0

\* _apply_context_boost: the result switched to the candidate
Boosted(result, candidate, boost_amount) ==
    DictMerge(result,
        [original_intent |-> result.intent,
         original_confidence |-> result.confidence,
         intent |-> candidate.intent,
         confidence |-> Min(BoostCap, result.confidence + boost_amount),
         context_boosted |-> TRUE,
         context_match |-> candidate.intent,
         context_applied |-> TRUE])

\* _apply_context_boost, from the first candidate of a recent intent on
\* (hit, 0 when there is none or when the boost is not due)
BoostAt(result, candidates, hit, has_continuation) ==
    IF hit # 0
    THEN Boosted(result, candidates[hit],
                 IF has_continuation THEN BoostContinuation ELSE BoostShort)
    ELSE DictMerge(result,
             [context_applied |-> TRUE, context_boosted |-> FALSE])

\* _apply_context_boost, for a session that has recent intents
BoostAmong(result, utterance, recent_intents, candidates) ==
    BoostAt(result, candidates,
            IF (HasContinuation(utterance) \/ IsShort(utterance))
               /\ result.confidence < BoostCeiling
            THEN FirstRecent(candidates, recent_intents)
            ELSE 0,
            HasContinuation(utterance))

\* _apply_context_boost, from the recent intents on
BoostGiven(store, env, result, utterance, recent_intents) ==
    IF recent_intents = <<>>
    THEN DictMerge(result, [context_applied |-> FALSE])
    ELSE BoostAmong(result, utterance, recent_intents,
                    GetCandidates(store, env, utterance, 5))

\* LocalIntentClassifier._apply_context_boost
ApplyContextBoost(store, env, sm, result, utterance, session_id) ==
    BoostGiven(store, env, result, utterance,
               GetRecentIntents(sm, session_id, 3))

\* one entry of multi_intents
SegmentIntent(segment, seg_result) ==
    [segment |-> segment,
     intent |-> seg_result.intent,
     confidence |-> seg_result.confidence,
     agent |-> seg_result.agent_routing]

\* the loop of classify over the segments
SegmentIntents(store, env, segments) ==
    [i \in 1..Len(segments) |->
        SegmentIntent(segments[i], ClassifySingle(store, env, segments[i]))]

\* step 1 of classify, had it recorded the only segment of an utterance too
MultiIntentsOfAnySegment(store, env, segments) ==
    IF Len(segments) > 0 THEN SegmentIntents(store, env, segments) ELSE <<>>

\* step 1 of classify, from the segments on
MultiIntentsOf(store, env, segments) ==
    IF Len(segments) > 1 THEN SegmentIntents(store, env, segments) ELSE <<>>

\* step 1 of classify: multi-intent detection
DetectMultiIntents(store, env, utterance) ==
    IF HasMultipleIntents(utterance)
    THEN MultiIntentsOf(store, env, SplitUtterance(utterance))
    ELSE <<>>

\* step 3 of classify: the context boost, when asked for
BoostIfAware(store, env, sm, result, utterance, session_id, context_aware) ==
    IF context_aware
    THEN ApplyContextBoost(store, env, sm, result, utterance, session_id)
    ELSE result

\* steps 2 and 3 of classify: primary classification and context boost
BoostedResult(store, env, sm, utterance, session_id, context_aware) ==
    BoostIfAware(store, env, sm, ClassifySingle(store, env, utterance),
                 utterance, session_id, context_aware)

\* {**slots, **session_slots}: the merge, had the remembered values won
MergedSlotsMemoryWins(sm, session_id, slots) ==
    DictMerge(slots, GetSlotMemory(sm, session_id))

\* {**session_slots, **slots}
MergedSlots(sm, session_id, slots) ==
    DictMerge(GetSlotMemory(sm, session_id), slots)

\* step 6 of classify: result.update({...}) (without the wall-clock
\* "processing_time_ms")
UpdatedResult(result, slots, merged_slots, missing_slots, multi_intents, disambiguation, candidates) ==
    DictMerge(result,
        [slots |-> slots,
         merged_slots |-> merged_slots,
         missing_slots |-> missing_slots,
         slot_filling_complete |-> Len(missing_slots) = 0,
         multi_intents |-> multi_intents,
         has_multi_intents |-> Len(multi_intents) > 1,
         disambiguation |-> disambiguation,
         needs_disambiguation |-> disambiguation.needed,
         candidates |-> candidates])

\* steps 4 to 6 of classify, from the merged slots and the candidates on
ResultWith(result, utterance, multi_intents, slots, merged_slots, candidates) ==
    UpdatedResult(result, slots, merged_slots,
                  GetMissingRequiredSlots(result.intent, merged_slots),
                  multi_intents,
                  GenerateDisambiguation(candidates, utterance),
                  candidates)

\* steps 4 to 6 of classify, from the extracted slots on
ResultFor(store, env, sm, utterance, session_id, multi_intents, result, slots) ==
    ResultWith(result, utterance, multi_intents, slots,
               MergedSlots(sm, session_id, slots),
               GetCandidates(store, env, utterance, 3))

\* steps 4 to 6 of classify: the result it returns
FinalResult(store, env, sm, utterance, session_id, multi_intents, result) ==
    ResultFor(store, env, sm, utterance, session_id, multi_intents, result,
              ExtractSlots(utterance, result.intent))

\* the session update of classify, had it stored the merged slots
TrackInSessionMerged(sm, session_id, utterance, result, multi_intents) ==
    SessionAdd(sm, session_id, utterance, result.intent, result.confidence,
               result.merged_slots,
               [i \in 1..Len(multi_intents) |-> multi_intents[i].intent])

\* the session update of classify
TrackInSession(sm, session_id, utterance, result, multi_intents) ==
    SessionAdd(sm, session_id, utterance, result.intent, result.confidence,
               result.slots,
               [i \in 1..Len(multi_intents) |-> multi_intents[i].intent])

\* classify, from the result on: what it returns and the session manager
\* it leaves
Tracked(sm, session_id, utterance, multi_intents, result) ==
    [result |-> result,
     sm |-> TrackInSession(sm, session_id, utterance, result, multi_intents)]

\* classify, from step 2 on
ClassifyWith(store, env, sm, utterance, session_id, context_aware, multi_intents) ==
    Tracked(sm, session_id, utterance, multi_intents,
            FinalResult(store, env, sm, utterance, session_id, multi_intents,
                        BoostedResult(store, env, sm, utterance, session_id,
                                      context_aware)))

\* LocalIntentClassifier.classify.  multi_intents is None in the result
\* when the list is empty; the model keeps the empty list for it.
Classify(store, env, sm, utterance, session_id, context_aware) ==
    ClassifyWith(store, env, sm, utterance, session_id, context_aware,
                 DetectMultiIntents(store, env, utterance))

(***************************************************************************)
(* The skill tool classify_intent.  An id that is not given is None, and   *)
(* None and the empty string are both false: NoId stands for either.       *)
(***************************************************************************)
NoId == ""

\* f"watson-{member_id}"
WatsonId == [member_id \in {"m1"} |-> "watson-m1"]

\* conversation_id or f"watson-{member_id}" if member_id else "default":
\* the conditional expression binds weaker than `or`
SkillSessionId(conversation_id, member_id) ==
    IF member_id # NoId
    THEN (IF conversation_id # NoId THEN conversation_id
          ELSE WatsonId[member_id])
    ELSE "default"

\* the dict classify_intent returns, without the processing time; the
\* empty prompt is the template "" with no descriptions
SkillResult(result, session_id, session_history) ==
    [intent |-> result.intent,
     intent_id |-> result.intent_id,
     agent |-> result.agent_routing,
     category |-> result.category,
     confidence |-> result.confidence,
     slots |-> result.slots,
     merged_slots |-> result.merged_slots,
     missing_slots |-> result.missing_slots,
     slot_filling_complete |-> result.slot_filling_complete,
     has_multi_intents |-> result.has_multi_intents,
     multi_intents |-> result.multi_intents,
     needs_disambiguation |-> result.needs_disambiguation,
     disambiguation_prompt |->
         DictGet(result.disambiguation, "prompt",
                 [template |-> "", descriptions |-> <<>>]),
     disambiguation_options |-> DictGet(result.disambiguation, "options", <<>>),
     context_applied |-> DictGet(result, "context_applied", FALSE),
     context_boosted |-> DictGet(result, "context_boosted", FALSE),
     candidates |-> result.candidates,
     session |-> [conversation_id |-> session_id,
                  recent_intents |-> [i \in DOMAIN session_history |->
                                         session_history[i].intent],
                  turn_count |-> Len(session_history)],
     metadata |-> [top_match_score |-> result.top_match_score]]

\* classify_intent, from the call of classify on
ClassifyIntentIn(out, session_id) ==
    [value |-> SkillResult(out.result, session_id,
                           SessionGet(out.sm, session_id, 5)),
     sm |-> AfterGet(out.sm, session_id)]

\* classify_intent
ClassifyIntent(store, env, sm, user_input, conversation_id, member_id, context_aware) ==
    ClassifyIntentIn(
        Classify(store, env, sm, user_input,
                 SkillSessionId(conversation_id, member_id), context_aware),
        SkillSessionId(conversation_id, member_id))

\* the session manager after classify is called for the utterances in turn,
\* in one session and with the context flag set
RECURSIVE AfterCalls(_, _, _, _, _)
AfterCalls(store, env, sm, session_id, utterances) ==
    IF utterances = <<>> THEN sm
    ELSE AfterCalls(store, env,
                    Classify(store, env, sm, Head(utterances), session_id,
                             TRUE).sm,
                    session_id, Tail(utterances))

\* resolve_disambiguation, from the candidates on: what it returns, or the
\* exception it raises.  For a selection in range it calls
\* SessionManager.add with the keyword disambiguation_resolved, which add
\* does not take: the call raises TypeError before add runs.
ResolveAmong(candidates, selected_option) ==
    IF selected_option < 1 \/ selected_option > Len(candidates)
    THEN [status |-> "error",
          error |-> <<"Invalid option. Please select 1-", Len(candidates)>>]
    ELSE [raised |-> "TypeError"]

\* resolve_disambiguation
ResolveDisambiguation(store, env, conversation_id, selected_option, original_utterance) ==
    ResolveAmong(GetCandidates(store, env, original_utterance, 3),
                 selected_option)

(***************************************************************************)
(* The state.                                                              *)
(*   env           the platform: the key of the string hash, drawn when    *)
(*                 the interpreter starts, and the sort of the library     *)
(*   vector_store  LocalIntentClassifier.vector_store                      *)
(*   sm            LocalIntentClassifier.session_manager                   *)
(*   last          the operation that has just returned: its arguments and *)
(*                 what it returned                                        *)
(*   before        sm as it was when that operation was called             *)
(*   calls         the number of operations called so far                  *)
(*   added         history variable of the specification of the session    *)
(*                 manager alone: per session, every turn ever added       *)
(*   frame         the call of classify in progress, when classify is      *)
(*                 followed statement by statement: the statement it is    *)
(*                 at and its local variables                              *)
(*   hashkey       the key of the string hash of each interpreter process, *)
(*                 when several processes are followed                     *)
(*   embedded      every embedding observed: the process, the text and the *)
(*                 vector returned                                         *)
(*   threads       the calls in progress in each thread, when several      *)
(*                 threads call the classifier at once: the statement each *)
(*                 is at and its local variables                           *)
(*   rng           the state of numpy's global random generator: the seed  *)
(*                 last set and the vectors drawn since                    *)
(***************************************************************************)
VARIABLES env, vector_store, sm, last, before, calls, added, frame, hashkey, embedded, threads, rng

vars == <<env, vector_store, sm, last, before, calls, added, frame, hashkey, embedded, threads, rng>>

\* the platforms a classifier runs on: a hash key with a sort that reverses
\* equal scores, another with a sort that keeps them in index order
Envs == {[key |-> 4, stable |-> FALSE], [key |-> 37, stable |-> TRUE]}

\* the catalogs a classifier is built over: none, the two phrases of one
\* intent, and all of KnowledgeBase
KnowledgeBases ==
    {SubSeq(KnowledgeBase, 1, n) : n \in {0, 2, Len(KnowledgeBase)}}

NoCall == [op |-> "none"]

\* the global random generator before it is used
FreshRng == [seed |-> 0, drawn |-> 0]

\* no call of classify in progress
Idle == [pc |-> "idle"]

\* LocalIntentClassifier.__init__
Init ==
    /\ env \in Envs
    /\ \E kb \in KnowledgeBases : vector_store = BuildKb(kb, env.key)
    /\ sm = EmptySessions
    /\ last = NoCall
    /\ before = EmptySessions
    /\ calls = 0
    /\ added = EmptyDict
    /\ frame = Idle
    /\ hashkey = EmptyDict
    /\ embedded = {}
    /\ threads = EmptyDict
    /\ rng = FreshRng

\* a call of LocalIntentClassifier.classify
ClassifyCall(utterance, session_id, context_aware) ==
    /\ calls < MaxCalls
    /\ \E out \in {Classify(vector_store, env, sm, utterance, session_id,
                             context_aware)} :
           /\ sm' = out.sm
           /\ last' = [op |-> "classify",
                       utterance |-> utterance,
                       session_id |-> session_id,
                       context_aware |-> context_aware,
                       result |-> out.result]
    /\ before' = sm
    /\ calls' = calls + 1
    /\ UNCHANGED <<env, vector_store, added, frame, hashkey, embedded, threads, rng>>

Next ==
    \E utterance \in Utterances, session_id \in SessionIds,
       context_aware \in BOOLEAN :
        ClassifyCall(utterance, session_id, context_aware)

Spec == Init /\ [][Next]_vars

(***************************************************************************)
(* The session manager alone: SessionManager.add called directly, any      *)
(* number of times.                                                        *)
(***************************************************************************)

\* the turns handed to add: one with slots, one with sub-intents and none
Turns ==
    {[utterance |-> uPay50, intent |-> "copay", confidence |-> 966,
      slots |-> [amount |-> "50"], multi_intents |-> <<>>],
     [utterance |-> uMulti, intent |-> "pharmacy", confidence |-> 1000,
      slots |-> EmptyDict, multi_intents |-> <<"pharmacy", "deductible">>]}

AnEnv == CHOOSE e \in Envs : TRUE

\* SessionManager.__init__
InitStore ==
    /\ env = AnEnv
    /\ vector_store = EmptyStore
    /\ sm = EmptySessions
    /\ last = NoCall
    /\ before = EmptySessions
    /\ calls = 0
    /\ added = [session_id \in SessionIds |-> <<>>]
    /\ frame = Idle
    /\ hashkey = EmptyDict
    /\ embedded = {}
    /\ threads = EmptyDict
    /\ rng = FreshRng

\* a call of SessionManager.add
AddCall(session_id, turn) ==
    /\ calls < MaxAdds
    /\ sm' = SessionAdd(sm, session_id, turn.utterance, turn.intent,
                        turn.confidence, turn.slots, turn.multi_intents)
    /\ added' = [added EXCEPT ![session_id] = Append(@, turn)]
    /\ calls' = calls + 1
    /\ UNCHANGED <<env, vector_store, last, before, frame, hashkey, embedded, threads, rng>>

NextStore ==
    \E session_id \in SessionIds, turn \in Turns : AddCall(session_id, turn)

SpecStore == InitStore /\ [][NextStore]_vars

\* C1: a session's history never holds more than 10 turns, and after any
\* number of turns added to it, it holds the last min(N, 10) of them, in
\* the order they were added.
HistoryIsLastTen ==
    \A session_id \in SessionIds :
        LET history == DictGet(sm.sessions, session_id, <<>>)
            got == SessionGet(sm, session_id, 100)
            all == added[session_id]
            kept == Min(Len(all), HistoryCap)
        IN  /\ Len(history) <= HistoryCap
            /\ Len(got) = kept
            /\ \A i \in 1..kept :
                   LET turn == all[Len(all) - kept + i]
                   IN  /\ got[i].utterance = turn.utterance
                       /\ got[i].intent = turn.intent
                       /\ got[i].confidence = turn.confidence
                       /\ got[i].slots = turn.slots
                       /\ got[i].multi_intents = turn.multi_intents

\* more than 10 turns were added to a session, and not all of them alike
HistoryIsLastTenWitness ==
    \E session_id \in SessionIds :
        /\ Len(added[session_id]) > HistoryCap
        /\ added[session_id][1] # added[session_id][HistoryCap + 1]
        /\ Len(sm.sessions[session_id]) = HistoryCap

(***************************************************************************)
(* Properties of classify, stated of the call that has just returned.      *)
(***************************************************************************)
Classified == last.op = "classify"

\* C2: needs_disambiguation is true if and only if there are at least two
\* candidates and the score of the first exceeds the score of the second
\* by at most 0.15; with fewer than two candidates or a larger gap it is
\* false.
DisambiguationIffCloseScores ==
    Classified =>
        LET candidates == last.result.candidates
        IN  /\ last.result.needs_disambiguation
               <=> /\ Len(candidates) >= 2
                   /\ candidates[1].score - candidates[2].score
                      <= ClearWinnerGap
            /\ last.result.disambiguation.needed
               = last.result.needs_disambiguation

\* a call that asks, its two best candidates apart but by no more than 0.15
DisambiguationIffCloseScoresWitness ==
    /\ Classified
    /\ last.result.needs_disambiguation
    /\ Len(last.result.candidates) >= 2
    /\ last.result.candidates[1].score > last.result.candidates[2].score

\* the base classification of the utterance of the call, and whether the
\* call returned another intent or confidence than it
BaseOfLast == ClassifySingle(vector_store, env, last.utterance)

ChangedByBoost ==
    \/ last.result.intent # BaseOfLast.intent
    \/ last.result.confidence # BaseOfLast.confidence

\* the conditions of the boost other than the cue: the flag, a prior turn
\* of the session, a base confidence below 0.8 and one of the five best
\* candidates among the last three intents of the session
BoostOtherwiseDue ==
    /\ last.context_aware
    /\ Len(DictGet(before.sessions, last.session_id, <<>>)) >= 1
    /\ BaseOfLast.confidence < BoostCeiling
    /\ \E c \in Range(GetCandidates(vector_store, env, last.utterance, 5)) :
           c.intent \in Range(GetRecentIntents(before, last.session_id, 3))

\* C3: the context boost changes the result if and only if context_aware
\* is set, the session has a prior turn, the utterance contains a
\* continuation cue word or has at most 4 words, the base confidence is
\* below 0.8 and one of the top-5 candidates has an intent among the last 3
\* session intents; otherwise intent and confidence are those of the base
\* classification.  A cue word is a word of the utterance (or two words in
\* a row, for "what about" and "how about").
BoostIffCueWord ==
    Classified =>
        LET low == Lower(last.utterance)
            has_cue_word ==
                \/ \E i \in 1..Len(low) : low[i] \in ContinuationWords
                \/ \E i \in 1..(Len(low) - 1) :
                       <<low[i], low[i + 1]>> \in ContinuationPairs
        IN  ChangedByBoost
            <=> /\ BoostOtherwiseDue
                /\ has_cue_word \/ Len(last.utterance) <= ShortWords

\* C3 with the cue read as the code reads it, as a substring of the
\* lower-cased utterance
BoostIffCueSubstring ==
    Classified =>
        (ChangedByBoost
         <=> /\ BoostOtherwiseDue
             /\ HasContinuation(last.utterance)
                \/ Len(last.utterance) <= ShortWords)

\* a call boosted for the cue of an utterance of more than 4 words
BoostIffCueSubstringWitness ==
    /\ Classified
    /\ ChangedByBoost
    /\ Len(last.utterance) > ShortWords
    /\ last.result.context_boosted

EmptyIndexFallsBack ==
    (Classified /\ vector_store.vectors = <<>>) =>
        LET history == DictGet(sm.sessions, last.session_id, <<>>)
            earlier == DictGet(before.sessions, last.session_id, <<>>)
        IN  /\ last.result.intent = "unknown"
            /\ last.result.agent_routing = "FallbackAgent"
            /\ last.result.confidence = DefaultConfidence
            /\ last.result.candidates = <<>>
            /\ last.result.needs_disambiguation = FALSE
            /\ Len(history) = Len(earlier) + 1
            /\ SubSeq(history, 1, Len(earlier)) = earlier
            /\ history[Len(history)].utterance = last.utterance
            /\ history[Len(history)].intent = "unknown"

\* a context-aware call over an empty index, for a short utterance in a
\* session that has a turn already: every step of classify has run
EmptyIndexFallsBackWitness ==
    /\ Classified
    /\ vector_store.vectors = <<>>
    /\ last.context_aware
    /\ Len(last.utterance) <= ShortWords
    /\ Len(DictGet(before.sessions, last.session_id, <<>>)) = 1
    /\ Len(sm.sessions[last.session_id]) = 2

\* C8: merged_slots is the slot memory of the session as it was before the
\* turn, overridden key by key by the slots extracted in the turn: a fresh
\* slot carries the fresh value, a remembered slot not extracted in the
\* turn carries the remembered value, and there are no other keys.
MergedSlotsOverride ==
    Classified =>
        LET memory == DictGet(before.slot_memory, last.session_id, EmptyDict)
            fresh == last.result.slots
            merged == last.result.merged_slots
        IN  /\ DOMAIN merged = DOMAIN memory \cup DOMAIN fresh
            /\ \A name \in DOMAIN fresh : merged[name] = fresh[name]
            /\ \A name \in DOMAIN memory \ DOMAIN fresh :
                   merged[name] = memory[name]

\* a turn that extracts a slot the session remembers with another value,
\* while the session remembers a slot the turn does not extract
MergedSlotsOverrideWitness ==
    /\ Classified
    /\ LET memory == DictGet(before.slot_memory, last.session_id, EmptyDict)
           fresh == last.result.slots
       IN  /\ \E name \in DOMAIN memory \cap DOMAIN fresh :
                  memory[name] # fresh[name]
           /\ DOMAIN memory \ DOMAIN fresh # {}

\* C9: a classify call appends exactly one turn to the history of its
\* session, holding the utterance, the final intent and confidence, the
\* slots extracted in this turn and the names of the sub-intents; the
\* history and slot memory of every other session are unchanged.
ClassifyAppendsOneTurn ==
    Classified =>
        LET history == DictGet(sm.sessions, last.session_id, <<>>)
            earlier == DictGet(before.sessions, last.session_id, <<>>)
            multi == last.result.multi_intents
        IN  /\ history =
                   Append(earlier,
                       [utterance |-> last.utterance,
                        intent |-> last.result.intent,
                        confidence |-> last.result.confidence,
                        slots |-> last.result.slots,
                        multi_intents |->
                            [i \in 1..Len(multi) |-> multi[i].intent]])
            /\ \A other \in SessionIds \ {last.session_id} :
                   /\ other \in DOMAIN sm.sessions
                      <=> other \in DOMAIN before.sessions
                   /\ DictGet(sm.sessions, other, <<>>)
                      = DictGet(before.sessions, other, <<>>)
                   /\ other \in DOMAIN sm.slot_memory
                      <=> other \in DOMAIN before.slot_memory
                   /\ DictGet(sm.slot_memory, other, EmptyDict)
                      = DictGet(before.slot_memory, other, EmptyDict)

\* a boosted turn that extracts slots and whose merged slots are more than
\* its own slots
ClassifyAppendsOneTurnWitness ==
    /\ Classified
    /\ last.result.merged_slots # last.result.slots
    /\ last.result.slots # EmptyDict
    /\ ChangedByBoost

(***************************************************************************)
(* The vector store alone: InMemoryVectorStore.add and search called       *)
(* directly.                                                               *)
(***************************************************************************)

\* the vectors added and searched for: opposite directions, and one at a
\* right angle to both, which is as similar to the one as to the other
IndexVectors == {0, 12}

QueryVectors == {0, 6}

\* the metadata added
IndexMetadata == {KnowledgeBase[1], KnowledgeBase[Len(KnowledgeBase)]}

\* InMemoryVectorStore.__init__
InitIndex ==
    /\ env \in Envs
    /\ vector_store = EmptyStore
    /\ sm = EmptySessions
    /\ last = NoCall
    /\ before = EmptySessions
    /\ calls = 0
    /\ added = EmptyDict
    /\ frame = Idle
    /\ hashkey = EmptyDict
    /\ embedded = {}
    /\ threads = EmptyDict
    /\ rng = FreshRng

\* a call of InMemoryVectorStore.add with one vector
IndexAdd(vector, metadata) ==
    /\ Len(vector_store.vectors) < MaxEntries
    /\ vector_store' = StoreAdd(vector_store, <<vector>>, <<metadata>>)
    /\ last' = [op |-> "add"]
    /\ UNCHANGED <<env, sm, before, calls, added, frame, hashkey, embedded, threads, rng>>

\* a call of InMemoryVectorStore.search
SearchCall(query, top_k) ==
    /\ last' = [op |-> "search",
                query |-> query,
                top_k |-> top_k,
                top_indices |-> TopIndices(vector_store, query, top_k,
                                           env.stable),
                results |-> Search(vector_store, query, top_k, env.stable)]
    /\ UNCHANGED <<env, vector_store, sm, before, calls, added, frame, hashkey, embedded, threads, rng>>

NextIndex ==
    \/ \E vector \in IndexVectors, metadata \in IndexMetadata :
           IndexAdd(vector, metadata)
    \/ \E query \in QueryVectors, top_k \in 0..MaxK : SearchCall(query, top_k)

SpecIndex == InitIndex /\ [][NextIndex]_vars

Searched == last.op = "search"

\* the results are in descending order of score
SortedDescending(results) ==
    \A i \in 1..(Len(results) - 1) : results[i].score >= results[i + 1].score

\* C6: for every index content and every k >= 0, search(query, k) returns at
\* most k results, in descending order of similarity, and the empty list
\* for an empty index.
SearchWithinK ==
    Searched =>
        /\ Len(last.results) <= last.top_k
        /\ SortedDescending(last.results)
        /\ vector_store.vectors = <<>> => last.results = <<>>

\* C6, for k >= 1: search returns the min(k, size) most similar entries,
\* most similar first; for k = 0 it returns every entry.
SearchWithinPositiveK ==
    Searched =>
        /\ SortedDescending(last.results)
        /\ vector_store.vectors = <<>> => last.results = <<>>
        /\ last.top_k >= 1 =>
               Len(last.results) = Min(last.top_k, Len(vector_store.vectors))
        /\ last.top_k = 0 => Len(last.results) = Len(vector_store.vectors)

\* a search that cut a longer index down to k entries of different scores
SearchWithinPositiveKWitness ==
    /\ Searched
    /\ last.top_k >= 1
    /\ Len(last.results) = last.top_k
    /\ Len(vector_store.vectors) > last.top_k
    /\ last.results[1].score > last.results[Len(last.results)].score

\* the entries at positions a and b are as similar to the query of the
\* search that has just returned
TiedAt(a, b) ==
    Cosine(vector_store.vectors[a], last.query)
    = Cosine(vector_store.vectors[b], last.query)

\* the entry at position a is returned, and before the entry at position b
\* if that is returned too
ReturnedFirst(a, b) ==
    /\ \E i \in DOMAIN last.top_indices : last.top_indices[i] = a
    /\ \A i, j \in DOMAIN last.top_indices :
           (last.top_indices[i] = a /\ last.top_indices[j] = b) => i < j

\* one at least of the entries at positions a and b is returned
EitherReturned(a, b) ==
    \E i \in DOMAIN last.top_indices : last.top_indices[i] \in {a, b}

\* C18: search breaks ties by insertion order: of two entries as similar to
\* the query, the one added earlier comes before the one added later when
\* both are returned, and is the one returned when k leaves room for one
\* of them only.
SearchTiesByInsertionOrder ==
    Searched =>
        \A a, b \in DOMAIN vector_store.vectors :
            (a < b /\ TiedAt(a, b) /\ EitherReturned(a, b))
                => ReturnedFirst(a, b)

\* C18, as the code has it where argsort keeps equal scores in index order:
\* the slice takes the end of the ascending order and then reverses it, so
\* of two entries as similar to the query the one added later comes first,
\* and is the one returned when k leaves room for one of them only.
SearchTiesReversedWhenStable ==
    (Searched /\ env.stable) =>
        \A a, b \in DOMAIN vector_store.vectors :
            (a < b /\ TiedAt(a, b) /\ EitherReturned(a, b))
                => ReturnedFirst(b, a)

\* a search for one entry among entries that are all as similar, under a
\* sort that keeps them in index order: the last one added is returned
SearchTiesReversedWhenStableWitness ==
    /\ Searched
    /\ env.stable
    /\ last.top_k = 1
    /\ Len(vector_store.vectors) >= 2
    /\ \A a, b \in DOMAIN vector_store.vectors : TiedAt(a, b)
    /\ last.top_indices = <<Len(vector_store.vectors)>>

(***************************************************************************)
(* The embedder alone, in several interpreter processes: each process      *)
(* draws the key of its string hash when it starts.                        *)
(***************************************************************************)
Processes == {"p1", "p2"}

\* the texts embedded
EmbedTexts == {uRefill, uRefillUpper, uThat, uHsa}

\* the processes start
InitEmbed ==
    /\ env = AnEnv
    /\ vector_store = EmptyStore
    /\ sm = EmptySessions
    /\ last = NoCall
    /\ before = EmptySessions
    /\ calls = 0
    /\ added = EmptyDict
    /\ frame = Idle
    /\ hashkey \in [Processes -> HashKeys]
    /\ embedded = {}
    /\ threads = EmptyDict
    /\ rng = FreshRng

\* a call of EmbeddingGenerator.generate in a process
EmbedCall(process, text) ==
    /\ embedded' = embedded \cup
                       {[process |-> process,
                         text |-> text,
                         vector |-> Generate(text, hashkey[process])]}
    /\ UNCHANGED <<env, vector_store, sm, last, before, calls, added, frame, hashkey, threads, rng>>

NextEmbed ==
    \E process \in Processes, text \in EmbedTexts : EmbedCall(process, text)

SpecEmbed == InitEmbed /\ [][NextEmbed]_vars

\* C7: the embedding of a text is the same in every call and in every
\* process, and texts that are equal after lower-casing have the same
\* embedding.
EmbedSameEverywhere ==
    \A a \in embedded, b \in embedded :
        Lower(a.text) = Lower(b.text) => a.vector = b.vector

\* C7, within one process: texts that are equal after lower-casing have the
\* same embedding in every call of that process.
EmbedSameInProcess ==
    \A a \in embedded, b \in embedded :
        a.process = b.process /\ Lower(a.text) = Lower(b.text)
            => a.vector = b.vector

\* a process has embedded two texts that differ in case only, and another
\* text to a different vector
EmbedSameInProcessWitness ==
    \E a \in embedded, b \in embedded, c \in embedded :
        /\ a.process = b.process
        /\ b.process = c.process
        /\ a.text # b.text
        /\ Lower(a.text) = Lower(b.text)
        /\ c.vector # a.vector

(***************************************************************************)
(* classify followed statement by statement, with the calls it makes to    *)
(* the session manager; a call in progress may be abandoned (an exception  *)
(* raised, the caller gone) at any statement up to the session update.     *)
(***************************************************************************)

\* the statements of classify up to and including the session update
BeforeUpdate ==
    {"multi_intents", "primary", "boost", "slots", "merge", "build", "track"}

\* classify is called
BeginClassify(utterance, session_id, context_aware) ==
    /\ frame.pc = "idle"
    /\ calls < MaxCalls
    /\ frame' = [pc |-> "multi_intents",
                 utterance |-> utterance,
                 session_id |-> session_id,
                 context_aware |-> context_aware]
    /\ before' = sm
    /\ calls' = calls + 1
    /\ UNCHANGED <<env, vector_store, sm, last, added, hashkey, embedded, threads, rng>>

\* 1. multi-intent detection
MultiIntentStep ==
    /\ frame.pc = "multi_intents"
    /\ frame' = DictMerge(frame,
                    [pc |-> "primary",
                     multi_intents |->
                         DetectMultiIntents(vector_store, env, frame.utterance)])
    /\ UNCHANGED <<env, vector_store, sm, last, before, calls, added, hashkey, embedded, threads, rng>>

\* 2. primary classification
PrimaryStep ==
    /\ frame.pc = "primary"
    /\ frame' = DictMerge(frame,
                    [pc |-> "boost",
                     result |-> ClassifySingle(vector_store, env, frame.utterance)])
    /\ UNCHANGED <<env, vector_store, sm, last, before, calls, added, hashkey, embedded, threads, rng>>

\* 3. context-aware boosting, which reads the recent intents
BoostStep ==
    /\ frame.pc = "boost"
    /\ frame' = DictMerge(frame,
                    [pc |-> "slots",
                     result |->
                         BoostIfAware(vector_store, env, sm, frame.result,
                                      frame.utterance, frame.session_id,
                                      frame.context_aware)])
    /\ sm' = IF frame.context_aware THEN AfterGet(sm, frame.session_id) ELSE sm
    /\ UNCHANGED <<env, vector_store, last, before, calls, added, hashkey, embedded, threads, rng>>

\* 4. slot filling
SlotStep ==
    /\ frame.pc = "slots"
    /\ frame' = DictMerge(frame,
                    [pc |-> "merge",
                     slots |-> ExtractSlots(frame.utterance, frame.result.intent)])
    /\ UNCHANGED <<env, vector_store, sm, last, before, calls, added, hashkey, embedded, threads, rng>>

\* the merge with the slot memory of the session, which reads it
MergeStep ==
    /\ frame.pc = "merge"
    /\ frame' = DictMerge(frame,
                    [pc |-> "build",
                     merged_slots |->
                         MergedSlots(sm, frame.session_id, frame.slots)])
    /\ sm' = AfterGetSlotMemory(sm, frame.session_id)
    /\ UNCHANGED <<env, vector_store, last, before, calls, added, hashkey, embedded, threads, rng>>

\* missing slots, 5. disambiguation check and 6. the final result
BuildStep ==
    /\ frame.pc = "build"
    /\ frame' = DictMerge(frame,
                    [pc |-> "track",
                     result |->
                         ResultWith(frame.result, frame.utterance,
                                    frame.multi_intents, frame.slots,
                                    frame.merged_slots,
                                    GetCandidates(vector_store, env,
                                                  frame.utterance, 3))])
    /\ UNCHANGED <<env, vector_store, sm, last, before, calls, added, hashkey, embedded, threads, rng>>

\* the session update
TrackStep ==
    /\ frame.pc = "track"
    /\ sm' = TrackInSession(sm, frame.session_id, frame.utterance,
                            frame.result, frame.multi_intents)
    /\ frame' = DictMerge(frame, [pc |-> "return"])
    /\ UNCHANGED <<env, vector_store, last, before, calls, added, hashkey, embedded, threads, rng>>

\* return result
ReturnStep ==
    /\ frame.pc = "return"
    /\ last' = [op |-> "classify",
                utterance |-> frame.utterance,
                session_id |-> frame.session_id,
                context_aware |-> frame.context_aware,
                result |-> frame.result]
    /\ frame' = Idle
    /\ UNCHANGED <<env, vector_store, sm, before, calls, added, hashkey, embedded, threads, rng>>

\* the call in progress ends without reaching the session update
Abandon ==
    /\ frame.pc \in BeforeUpdate
    /\ last' = [op |-> "abandoned",
                session_id |-> frame.session_id,
                at |-> frame.pc]
    /\ frame' = Idle
    /\ UNCHANGED <<env, vector_store, sm, before, calls, added, hashkey, embedded, threads, rng>>

\* the utterances tried statement by statement: one with two intents, one
\* with a slot, one with a continuation cue
StepUtterances == {uMulti, uPay50, uThat}

NextSteps ==
    \/ \E utterance \in StepUtterances, session_id \in SessionIds,
          context_aware \in BOOLEAN :
           BeginClassify(utterance, session_id, context_aware)
    \/ MultiIntentStep
    \/ PrimaryStep
    \/ BoostStep
    \/ SlotStep
    \/ MergeStep
    \/ BuildStep
    \/ TrackStep
    \/ ReturnStep
    \/ Abandon

\* LocalIntentClassifier.__init__ over all of KnowledgeBase
InitSteps ==
    /\ env \in Envs
    /\ vector_store = BuildKb(KnowledgeBase, env.key)
    /\ sm = EmptySessions
    /\ last = NoCall
    /\ before = EmptySessions
    /\ calls = 0
    /\ added = EmptyDict
    /\ frame = Idle
    /\ hashkey = EmptyDict
    /\ embedded = {}
    /\ threads = EmptyDict
    /\ rng = FreshRng

SpecSteps == InitSteps /\ [][NextSteps]_vars

\* C10: the session update is the last statement of classify before it
\* returns and its only write: at every statement up to the update, and
\* after a call abandoned before it, the session manager is as it was when
\* classify was called; at the return it is the one that classify leaves,
\* with the result classify returns.
SessionUpdateIsLastWrite ==
    /\ frame.pc \in BeforeUpdate => sm = before
    /\ (frame.pc = "idle" /\ last.op = "abandoned") => sm = before
    /\ frame.pc = "return" =>
           [result |-> frame.result, sm |-> sm] =
               Classify(vector_store, env, before, frame.utterance,
                        frame.session_id, frame.context_aware)

\* a call abandoned right before its session update, having read the
\* history and the slot memory, in a session store that holds turns
SessionUpdateIsLastWriteWitness ==
    /\ frame.pc = "idle"
    /\ last.op = "abandoned"
    /\ last.at = "track"
    /\ sm # EmptySessions

(***************************************************************************)
(* The session manager with its reads and the session tools of the skill   *)
(* interface: turns are added, read back and cleared.                      *)
(***************************************************************************)

\* LocalIntentClassifier.__init__, before any turn
InitSession ==
    /\ env \in Envs
    /\ vector_store = BuildKb(KnowledgeBase, env.key)
    /\ sm = EmptySessions
    /\ last = NoCall
    /\ before = EmptySessions
    /\ calls = 0
    /\ added = EmptyDict
    /\ frame = Idle
    /\ hashkey = EmptyDict
    /\ embedded = {}
    /\ threads = EmptyDict
    /\ rng = FreshRng

\* a call of SessionManager.add
TurnCall(session_id, turn) ==
    /\ calls < MaxTurns
    /\ sm' = SessionAdd(sm, session_id, turn.utterance, turn.intent,
                        turn.confidence, turn.slots, turn.multi_intents)
    /\ last' = [op |-> "add", session_id |-> session_id]
    /\ before' = sm
    /\ calls' = calls + 1
    /\ UNCHANGED <<env, vector_store, added, frame, hashkey, embedded, threads, rng>>

\* a call of SessionManager.get
GetCall(session_id, n) ==
    /\ last' = [op |-> "get", session_id |-> session_id, n |-> n,
                value |-> SessionGet(sm, session_id, n)]
    /\ sm' = AfterGet(sm, session_id)
    /\ before' = sm
    /\ UNCHANGED <<env, vector_store, calls, added, frame, hashkey, embedded, threads, rng>>

\* a call of SessionManager.get_recent_intents
GetRecentIntentsCall(session_id, n) ==
    /\ last' = [op |-> "get_recent_intents", session_id |-> session_id,
                n |-> n, value |-> GetRecentIntents(sm, session_id, n)]
    /\ sm' = AfterGet(sm, session_id)
    /\ before' = sm
    /\ UNCHANGED <<env, vector_store, calls, added, frame, hashkey, embedded, threads, rng>>

\* a call of SessionManager.get_slot_memory
GetSlotMemoryCall(session_id) ==
    /\ last' = [op |-> "get_slot_memory", session_id |-> session_id,
                value |-> GetSlotMemory(sm, session_id)]
    /\ sm' = AfterGetSlotMemory(sm, session_id)
    /\ before' = sm
    /\ UNCHANGED <<env, vector_store, calls, added, frame, hashkey, embedded, threads, rng>>

\* a call of SessionManager.get_pending_intents
GetPendingIntentsCall(session_id) ==
    /\ last' = [op |-> "get_pending_intents", session_id |-> session_id,
                value |-> GetPendingIntents(sm, session_id)]
    /\ sm' = AfterGetPendingIntents(sm, session_id)
    /\ before' = sm
    /\ UNCHANGED <<env, vector_store, calls, added, frame, hashkey, embedded, threads, rng>>

\* a call of LocalIntentClassifier.get_candidates, which reads the vector
\* store only
GetCandidatesCall(utterance, top_k) ==
    /\ last' = [op |-> "get_candidates", utterance |-> utterance,
                top_k |-> top_k,
                value |-> GetCandidates(vector_store, env, utterance, top_k)]
    /\ before' = sm
    /\ UNCHANGED <<env, vector_store, sm, calls, added, frame, hashkey, embedded, threads, rng>>

\* a call of get_session_context
GetSessionContextCall(conversation_id, turns) ==
    /\ last' = [op |-> "get_session_context", session_id |-> conversation_id,
                n |-> turns,
                value |-> GetSessionContext(sm, conversation_id, turns)]
    /\ sm' = AfterGetSessionContext(sm, conversation_id)
    /\ before' = sm
    /\ UNCHANGED <<env, vector_store, calls, added, frame, hashkey, embedded, threads, rng>>

\* a call of clear_session
ClearSessionCall(conversation_id) ==
    /\ last' = [op |-> "clear_session", session_id |-> conversation_id,
                value |-> [status |-> "cleared",
                           conversation_id |-> conversation_id]]
    /\ sm' = ClearSession(sm, conversation_id)
    /\ before' = sm
    /\ UNCHANGED <<env, vector_store, calls, added, frame, hashkey, embedded, threads, rng>>

NextSession ==
    \/ \E session_id \in SessionIds, turn \in Turns : TurnCall(session_id, turn)
    \/ \E session_id \in SessionIds, n \in 0..MaxK : GetCall(session_id, n)
    \/ \E session_id \in SessionIds, n \in 0..MaxK :
           GetRecentIntentsCall(session_id, n)
    \/ \E session_id \in SessionIds : GetSlotMemoryCall(session_id)
    \/ \E session_id \in SessionIds : GetPendingIntentsCall(session_id)
    \/ \E utterance \in StepUtterances : GetCandidatesCall(utterance, 3)
    \/ \E conversation_id \in SessionIds, turns \in 0..MaxK :
           GetSessionContextCall(conversation_id, turns)
    \/ \E conversation_id \in SessionIds : ClearSessionCall(conversation_id)

SpecSession == InitSession /\ [][NextSession]_vars

\* the operations that only read
ReadOps ==
    {"get", "get_recent_intents", "get_slot_memory", "get_pending_intents",
     "get_candidates", "get_session_context"}

\* the value a read returns for a session that holds nothing
EmptyValue(op, session_id) ==
    IF op = "get_slot_memory" THEN EmptyDict
    ELSE IF op = "get_session_context"
    THEN [conversation_id |-> session_id,
          history |-> <<>>,
          turn_count |-> 0,
          recent_intents |-> <<>>,
          slot_memory |-> EmptyDict,
          pending_intents |-> <<>>,
          has_pending |-> FALSE,
          context_summary |-> [text |-> "New conversation - no prior context"]]
    ELSE <<>>

\* C11: the reads get, get_recent_intents, get_slot_memory,
\* get_pending_intents, get_candidates and get_session_context leave the
\* session manager as it was; for a session id it does not know they return
\* the empty structures and create no entry for the id.
ReadsLeaveSessionsAlone ==
    last.op \in ReadOps =>
        /\ sm = before
        /\ (last.op # "get_candidates"
               /\ last.session_id \notin DOMAIN before.sessions
               /\ last.session_id \notin DOMAIN before.slot_memory) =>
               /\ last.value = EmptyValue(last.op, last.session_id)
               /\ last.session_id \notin DOMAIN sm.sessions
               /\ last.session_id \notin DOMAIN sm.slot_memory

\* a read of a session the manager does not know, next to one it knows
ReadsLeaveSessionsAloneWitness ==
    /\ last.op = "get_session_context"
    /\ last.session_id \notin DOMAIN before.sessions
    /\ before # EmptySessions

\* C12: clear_session(id) drops the history and the slot memory of the id
\* and touches no other id; on an id the manager does not hold it changes
\* nothing; and get_session_context(id) right after it returns an empty
\* history, an empty slot memory and no pending intents.
ClearSessionDropsAll ==
    last.op = "clear_session" =>
        /\ last.value.status = "cleared"
        /\ last.session_id \notin DOMAIN sm.sessions
        /\ last.session_id \notin DOMAIN sm.slot_memory
        /\ \A other \in SessionIds \ {last.session_id} :
               /\ (other \in DOMAIN sm.sessions) = (other \in DOMAIN before.sessions)
               /\ (other \in DOMAIN sm.slot_memory) = (other \in DOMAIN before.slot_memory)
               /\ SessionGet(sm, other, 100) = SessionGet(before, other, 100)
               /\ GetSlotMemory(sm, other) = GetSlotMemory(before, other)
        /\ (last.session_id \notin DOMAIN before.sessions
               /\ last.session_id \notin DOMAIN before.slot_memory) => sm = before
        /\ ClearSession(sm, last.session_id) = sm
        /\ \A turns \in 0..MaxK :
               LET context == GetSessionContext(sm, last.session_id, turns)
               IN  /\ context.history = <<>>
                   /\ context.slot_memory = EmptyDict
                   /\ context.pending_intents = <<>>
                   /\ ~context.has_pending

\* a session with turns, remembered slots and pending intents was cleared,
\* next to another session that holds turns
ClearSessionDropsAllWitness ==
    /\ last.op = "clear_session"
    /\ Truthy(GetSlotMemory(before, last.session_id))
    /\ GetPendingIntents(before, last.session_id) # <<>>
    /\ \E other \in SessionIds \ {last.session_id} :
           other \in DOMAIN sm.sessions

(***************************************************************************)
(* SessionManager.add called from several threads at once.  Nothing in the *)
(* code locks the session manager, so the statements of the calls          *)
(* interleave.                                                             *)
(***************************************************************************)
Threads == {"t1", "t2"}

\* the turn of the session before the threads start
PriorTurn ==
    [utterance |-> uHsa, intent |-> "hsa", confidence |-> 1000,
     slots |-> EmptyDict, multi_intents |-> <<>>]

\* add as one step, on a session manager s
AddTurn(s, session_id, turn) ==
    SessionAdd(s, session_id, turn.utterance, turn.intent, turn.confidence,
               turn.slots, turn.multi_intents)

\* the session manager after n turns of session "s1"
RECURSIVE Prefilled(_)
Prefilled(n) ==
    IF n = 0 THEN EmptySessions
    ELSE AddTurn(Prefilled(n - 1), "s1", PriorTurn)

\* the session manager holds no turn, or one session one turn short of the
\* cap, or at the cap; no thread has called yet
InitRace ==
    /\ env = AnEnv
    /\ vector_store = EmptyStore
    /\ sm \in {Prefilled(n) : n \in {0, HistoryCap - 1, HistoryCap}}
    /\ before = sm
    /\ last = NoCall
    /\ calls = 0
    /\ added = EmptyDict
    /\ frame = Idle
    /\ hashkey = EmptyDict
    /\ embedded = {}
    /\ threads = [t \in Threads |-> Idle]
    /\ rng = FreshRng

\* thread t calls add: the entry is built
AddBegin(t, session_id, turn) ==
    /\ threads[t].pc = "idle"
    /\ threads' = [threads EXCEPT ![t] =
                      [pc |-> "append",
                       session_id |-> session_id,
                       turn |-> turn,
                       entry |-> AddEntry(turn.utterance, turn.intent,
                                          turn.confidence, turn.slots,
                                          turn.multi_intents)]]
    /\ UNCHANGED <<env, vector_store, sm, last, before, calls, added, frame, hashkey, embedded, rng>>

\* self.sessions[session_id].append(entry)
AppendStep(t) ==
    /\ threads[t].pc = "append"
    /\ sm' = AddAppend(sm, threads[t].session_id, threads[t].entry)
    /\ threads' = [threads EXCEPT ![t].pc = "remember"]
    /\ UNCHANGED <<env, vector_store, last, before, calls, added, frame, hashkey, embedded, rng>>

\* the update of the slot memory
RememberStep(t) ==
    /\ threads[t].pc = "remember"
    /\ sm' = AddRemember(sm, threads[t].session_id, threads[t].turn.slots)
    /\ threads' = [threads EXCEPT ![t].pc = "check"]
    /\ UNCHANGED <<env, vector_store, last, before, calls, added, frame, hashkey, embedded, rng>>

\* if len(self.sessions[session_id]) > 10
CheckStep(t) ==
    /\ threads[t].pc = "check"
    /\ threads' = [threads EXCEPT ![t].pc =
                      IF AddOverCap(sm, threads[t].session_id)
                      THEN "slice" ELSE "done"]
    /\ UNCHANGED <<env, vector_store, sm, last, before, calls, added, frame, hashkey, embedded, rng>>

\* the last 10 turns are copied
SliceStep(t) ==
    /\ threads[t].pc = "slice"
    /\ threads' = [threads EXCEPT ![t] =
                      DictMerge(@, [pc |-> "assign",
                                    kept |-> AddSlice(sm, threads[t].session_id)])]
    /\ UNCHANGED <<env, vector_store, sm, last, before, calls, added, frame, hashkey, embedded, rng>>

\* and the copy replaces the history
AssignStep(t) ==
    /\ threads[t].pc = "assign"
    /\ sm' = AddAssign(sm, threads[t].session_id, threads[t].kept)
    /\ threads' = [threads EXCEPT ![t] = DictMerge(@, [pc |-> "done"])]
    /\ UNCHANGED <<env, vector_store, last, before, calls, added, frame, hashkey, embedded, rng>>

NextRace ==
    \E t \in Threads :
        \/ \E session_id \in SessionIds, turn \in Turns :
               AddBegin(t, session_id, turn)
        \/ AppendStep(t)
        \/ RememberStep(t)
        \/ CheckStep(t)
        \/ SliceStep(t)
        \/ AssignStep(t)

SpecRace == InitRace /\ [][NextRace]_vars

\* every thread has returned from its call
AllDone == \A t \in Threads : threads[t].pc = "done"

\* the session managers that the two calls leave when run one after another
SerialOutcomes ==
    {AddTurn(AddTurn(before, threads["t1"].session_id, threads["t1"].turn),
             threads["t2"].session_id, threads["t2"].turn),
     AddTurn(AddTurn(before, threads["t2"].session_id, threads["t2"].turn),
             threads["t1"].session_id, threads["t1"].turn)}

\* C13: concurrent add calls for the same session id lose no update: when
\* they have all returned, the history is the history of some serial order
\* of the calls and the slot memory holds the slots of every call.
NoLostUpdate ==
    (AllDone /\ threads["t1"].session_id = threads["t2"].session_id) =>
        /\ sm.sessions \in {s.sessions : s \in SerialOutcomes}
        /\ \A t \in Threads :
               \A k \in DOMAIN threads[t].turn.slots :
                   k \in DOMAIN GetSlotMemory(sm, threads[t].session_id)

\* C13, for calls that leave the history within its cap: when no call has
\* to trim the history, the session manager is the one of a serial order.
NoLostUpdateBelowCap ==
    (AllDone /\ \A t \in Threads : "kept" \notin DOMAIN threads[t]) =>
        sm \in SerialOutcomes

\* two calls for the same session have returned without trimming
NoLostUpdateBelowCapWitness ==
    /\ AllDone
    /\ threads["t1"].session_id = threads["t2"].session_id
    /\ threads["t1"].turn # threads["t2"].turn
    /\ \A t \in Threads : "kept" \notin DOMAIN threads[t]

(***************************************************************************)
(* classify called from several threads at once, each for a session of its *)
(* own.  The calls share the vector store, which they only read, and       *)
(* numpy's global random generator, which generate seeds and draws from in *)
(* two statements.                                                         *)
(***************************************************************************)

\* the session of each thread
SessionOf(t) == IF t = "t1" THEN "s1" ELSE "s2"

\* LocalIntentClassifier.__init__: _build_kb has embedded every phrase, the
\* last one last
InitParallel ==
    /\ env \in Envs
    /\ vector_store = BuildKb(KnowledgeBase, env.key)
    /\ sm = EmptySessions
    /\ before = EmptySessions
    /\ last = NoCall
    /\ calls = 0
    /\ added = EmptyDict
    /\ frame = Idle
    /\ hashkey = EmptyDict
    /\ embedded = {}
    /\ threads = [t \in Threads |-> Idle]
    /\ rng = AfterDraw(Seeded(KnowledgeBase[Len(KnowledgeBase)].text, env.key))

\* thread t calls classify(utterance, session_id, context_aware=False) with
\* an utterance of one intent
ParallelBegin(t, utterance) ==
    /\ threads[t].pc = "idle"
    /\ ~HasMultipleIntents(utterance)
    /\ threads' = [threads EXCEPT ![t] =
                      [pc |-> "seed_query",
                       utterance |-> utterance,
                       session_id |-> SessionOf(t)]]
    /\ UNCHANGED <<env, vector_store, sm, last, before, calls, added, frame, hashkey, embedded, rng>>

\* generate: np.random.seed(hash(text) % (2**32))
SeedStep(t) ==
    /\ threads[t].pc \in {"seed_query", "seed_candidates"}
    /\ rng' = Seeded(threads[t].utterance, env.key)
    /\ threads' = [threads EXCEPT ![t].pc =
                      IF @ = "seed_query" THEN "draw_query"
                      ELSE "draw_candidates"]
    /\ UNCHANGED <<env, vector_store, sm, last, before, calls, added, frame, hashkey, embedded>>

\* generate: np.random.randn(self.dim), and the rest of _classify_single
DrawQueryStep(t) ==
    /\ threads[t].pc = "draw_query"
    /\ rng' = AfterDraw(rng)
    /\ threads' = [threads EXCEPT ![t] =
                      DictMerge(@,
                          [pc |-> "seed_candidates",
                           result |-> SingleFrom(Search(vector_store, Drawn(rng),
                                                        10, env.stable))])]
    /\ UNCHANGED <<env, vector_store, sm, last, before, calls, added, frame, hashkey, embedded>>

\* generate: np.random.randn(self.dim), the rest of get_candidates, and
\* the rest of classify up to the session update
DrawCandidatesStep(t) ==
    /\ threads[t].pc = "draw_candidates"
    /\ rng' = AfterDraw(rng)
    /\ \E slots \in {ExtractSlots(threads[t].utterance, threads[t].result.intent)} :
           threads' = [threads EXCEPT ![t] =
               DictMerge(@,
                   [pc |-> "track",
                    result |->
                        ResultWith(threads[t].result, threads[t].utterance,
                                   <<>>, slots,
                                   MergedSlots(sm, threads[t].session_id, slots),
                                   CandidatesFrom(
                                       Search(vector_store, Drawn(rng), 20,
                                              env.stable), 3))])]
    /\ UNCHANGED <<env, vector_store, sm, last, before, calls, added, frame, hashkey, embedded>>

\* the session update, and the return
ParallelTrackStep(t) ==
    /\ threads[t].pc = "track"
    /\ sm' = TrackInSession(sm, threads[t].session_id, threads[t].utterance,
                            threads[t].result, <<>>)
    /\ threads' = [threads EXCEPT ![t] = DictMerge(@, [pc |-> "done"])]
    /\ UNCHANGED <<env, vector_store, last, before, calls, added, frame, hashkey, embedded, rng>>

NextParallel ==
    \E t \in Threads :
        \/ \E utterance \in Utterances : ParallelBegin(t, utterance)
        \/ SeedStep(t)
        \/ DrawQueryStep(t)
        \/ DrawCandidatesStep(t)
        \/ ParallelTrackStep(t)

SpecParallel == InitParallel /\ [][NextParallel]_vars

\* what the call of thread t returns and leaves when it runs alone
SerialOf(t) ==
    Classify(vector_store, env, before, threads[t].utterance,
             threads[t].session_id, FALSE)

\* the call of thread t has returned what it returns alone, and has left
\* its session as it leaves it alone
AsSerial(t) ==
    /\ threads[t].result.intent = SerialOf(t).result.intent
    /\ threads[t].result.confidence = SerialOf(t).result.confidence
    /\ threads[t].result.candidates = SerialOf(t).result.candidates
    /\ SessionGet(sm, threads[t].session_id, 100)
           = SessionGet(SerialOf(t).sm, threads[t].session_id, 100)
    /\ GetSlotMemory(sm, threads[t].session_id)
           = GetSlotMemory(SerialOf(t).sm, threads[t].session_id)

\* C14: concurrent classify calls for different session ids are
\* independent: each returns the intent, confidence and candidates, and
\* leaves its session in the state, of the call run alone.
ParallelAsSerial ==
    \A t \in Threads : threads[t].pc = "done" => AsSerial(t)

\* C14, for calls that do not overlap: a call that ran while no other call
\* was between its first and its last statement returns and leaves what it
\* does alone.
AloneAsSerial ==
    \A t \in Threads :
        (threads[t].pc = "done"
            /\ \A other \in Threads \ {t} : threads[other].pc = "idle")
            => AsSerial(t)

\* a call has returned while the other thread has not called
AloneAsSerialWitness ==
    \E t \in Threads :
        /\ threads[t].pc = "done"
        /\ \A other \in Threads \ {t} : threads[other].pc = "idle"
        /\ threads[t].result.candidates # <<>>

(***************************************************************************)
(* Resolving a disambiguation, through the skill interface and through the *)
(* classifier, in sessions that hold turns or none.                        *)
(***************************************************************************)

\* the sessions hold no turn, or one
InitResolve ==
    /\ env \in Envs
    /\ vector_store = BuildKb(KnowledgeBase, env.key)
    /\ sm \in {Prefilled(n) : n \in {0, 1}}
    /\ before = sm
    /\ last = NoCall
    /\ calls = 0
    /\ added = EmptyDict
    /\ frame = Idle
    /\ hashkey = EmptyDict
    /\ embedded = {}
    /\ threads = EmptyDict
    /\ rng = FreshRng

\* a call of resolve_disambiguation; `offered` notes how many candidates
\* it had to choose from
ResolveDisambiguationCall(conversation_id, selected_option, original_utterance) ==
    /\ \E candidates \in {GetCandidates(vector_store, env, original_utterance, 3)} :
           last' = [op |-> "resolve_disambiguation",
                    session_id |-> conversation_id,
                    selected_option |-> selected_option,
                    original_utterance |-> original_utterance,
                    offered |-> Len(candidates),
                    value |-> ResolveAmong(candidates, selected_option)]
    /\ sm' = AfterResolveDisambiguation(sm, conversation_id)
    /\ before' = sm
    /\ UNCHANGED <<env, vector_store, calls, added, frame, hashkey, embedded, threads, rng>>

\* a call of LocalIntentClassifier.handle_disambiguation_response
HandleDisambiguationResponseCall(session_id, selected_option) ==
    /\ last' = [op |-> "handle_disambiguation_response",
                session_id |-> session_id,
                selected_option |-> selected_option,
                offered |-> MaxOptions,
                value |-> HandleDisambiguationResponse(sm, session_id,
                                                       selected_option)]
    /\ sm' = AfterGet(sm, session_id)
    /\ before' = sm
    /\ UNCHANGED <<env, vector_store, calls, added, frame, hashkey, embedded, threads, rng>>

NextResolve ==
    \/ \E conversation_id \in SessionIds,
          selected_option \in 0..(MaxOptions + 1),
          original_utterance \in StepUtterances :
           ResolveDisambiguationCall(conversation_id, selected_option,
                                     original_utterance)
    \/ \E session_id \in SessionIds, selected_option \in 0..(MaxOptions + 1) :
           HandleDisambiguationResponseCall(session_id, selected_option)

SpecResolve == InitResolve /\ [][NextResolve]_vars

\* the last call resolved a disambiguation with a selection out of the
\* range of the options offered
InvalidSelection ==
    /\ last.op \in {"resolve_disambiguation", "handle_disambiguation_response"}
    /\ (last.selected_option < 1 \/ last.selected_option > last.offered)

\* the last call reported an error, did not report a resolution, and left
\* the session manager as it was
ReportedInvalid ==
    /\ "error" \in DOMAIN last.value
    /\ "status" \in DOMAIN last.value =>
           last.value.status \notin {"resolved", "disambiguation_resolved"}
    /\ sm = before

\* C15: a selection index below 1 or above the number of options offered
\* is reported as an error, never as resolved, and leaves the session store
\* unchanged, by resolve_disambiguation and by
\* handle_disambiguation_response.
InvalidSelectionReported == InvalidSelection => ReportedInvalid

\* C15, for resolve_disambiguation alone
InvalidSelectionReportedByResolve ==
    (InvalidSelection /\ last.op = "resolve_disambiguation") => ReportedInvalid

\* resolve_disambiguation was called with a selection above the options
\* offered, for a session that holds turns
InvalidSelectionReportedByResolveWitness ==
    /\ InvalidSelection
    /\ last.op = "resolve_disambiguation"
    /\ last.offered >= 1
    /\ last.selected_option > last.offered
    /\ last.session_id \in DOMAIN sm.sessions


(***************************************************************************)
(* classify of the training phrases themselves, over PhraseCatalog.        *)
(***************************************************************************)
\* the utterances tried: training phrases, as listed and in another case
PhraseUtterances == {uRefill, uRefillUpper, uDme, uDmeLower}

\* LocalIntentClassifier.__init__ over PhraseCatalog
InitPhrases ==
    /\ env \in Envs
    /\ vector_store = BuildKb(PhraseCatalog, env.key)
    /\ sm = EmptySessions
    /\ last = NoCall
    /\ before = EmptySessions
    /\ calls = 0
    /\ added = EmptyDict
    /\ frame = Idle
    /\ hashkey = EmptyDict
    /\ embedded = {}
    /\ threads = EmptyDict
    /\ rng = FreshRng

NextPhrases ==
    \E utterance \in PhraseUtterances, session_id \in SessionIds,
       context_aware \in BOOLEAN :
        ClassifyCall(utterance, session_id, context_aware)

SpecPhrases == InitPhrases /\ [][NextPhrases]_vars

\* the call that has just returned was made in a session with no turn
InEmptySession ==
    /\ Classified
    /\ DictGet(before.sessions, last.session_id, <<>>) = <<>>

\* the entries of the index that list the utterance, whatever the case
ListedAs(utterance) ==
    {i \in DOMAIN vector_store.metadata :
        Lower(vector_store.metadata[i].text) = Lower(utterance)}

\* C16: in an empty session, classifying an utterance that is, whatever
\* the case, a training phrase of an intent X returns intent X and the
\* agent X is routed to.
TrainingPhraseReturnsItsIntent ==
    InEmptySession =>
        \A i \in ListedAs(last.utterance) :
            /\ last.result.intent = vector_store.metadata[i].intent_name
            /\ last.result.agent_routing
               = vector_store.metadata[i].agent_routing

\* C16, for the phrases that one intent only lists
UniquePhraseReturnsItsIntent ==
    (/\ InEmptySession
     /\ \A i, j \in ListedAs(last.utterance) :
            vector_store.metadata[i].intent_name
            = vector_store.metadata[j].intent_name) =>
        \A i \in ListedAs(last.utterance) :
            /\ last.result.intent = vector_store.metadata[i].intent_name
            /\ last.result.agent_routing
               = vector_store.metadata[i].agent_routing

\* the refill phrase in upper case, classified as pharmacy in a session
\* with no turn
UniquePhraseReturnsItsIntentWitness ==
    /\ InEmptySession
    /\ last.utterance = uRefillUpper
    /\ ListedAs(last.utterance) # {}
    /\ last.result.intent = "pharmacy"
    /\ last.result.agent_routing = "PharmacyAgent"


(***************************************************************************)
(* SlotFiller.extract_slots called by itself.                              *)
(***************************************************************************)
\* the utterances and the intents it is called with
SlotUtterances ==
    {uRefill, uThat, uHsa, uPay50, uPay75, uTransfer, uCoveredOn}

SlotIntents ==
    {"pharmacy", "claims", "deductible", "eligibility", "hsa", "copay"}

\* SlotFiller.__init__
InitSlots ==
    /\ env \in Envs
    /\ vector_store = EmptyStore
    /\ sm = EmptySessions
    /\ last = NoCall
    /\ before = EmptySessions
    /\ calls = 0
    /\ added = EmptyDict
    /\ frame = Idle
    /\ hashkey = EmptyDict
    /\ embedded = {}
    /\ threads = EmptyDict
    /\ rng = FreshRng

\* a call of SlotFiller.extract_slots
ExtractSlotsCall(utterance, intent) ==
    /\ calls < MaxCalls
    /\ last' = [op |-> "extract_slots",
                utterance |-> utterance,
                intent |-> intent,
                writes |-> SlotWrites(utterance, intent),
                value |-> ExtractSlots(utterance, intent)]
    /\ calls' = calls + 1
    /\ UNCHANGED <<env, vector_store, sm, before, added, frame, hashkey,
                   embedded, threads, rng>>

NextSlots ==
    \E utterance \in SlotUtterances, intent \in SlotIntents :
        ExtractSlotsCall(utterance, intent)

SpecSlots == InitSlots /\ [][NextSlots]_vars

\* the names that both the intent and the common entities define and that
\* both extracted in the call that has just returned
Collisions ==
    DOMAIN IntentSlots(last.utterance, last.intent)
    \cap DOMAIN ExtractCommonSlots(last.utterance)

\* each name is assigned once in the dict of the call
WrittenOnce ==
    \A i, j \in DOMAIN last.writes :
        last.writes[i] = last.writes[j] => i = j

\* C17: extract_slots never overwrites a slot of the intent by a common
\* slot of the same name: where both patterns match, the returned slot has
\* the value and the type the intent's pattern extracted, and every slot
\* name is populated at most once in the call.
IntentSlotNotOverwritten ==
    last.op = "extract_slots" =>
        /\ \A name \in Collisions :
               LET own == IntentSlots(last.utterance, last.intent)[name]
               IN  /\ last.value[name].value = own.value
                   /\ last.value[name].type = own.type
        /\ WrittenOnce

\* C17, for the calls in which no common entity matches under the name of
\* a slot of the intent: the slots of the intent are returned as extracted
\* and each name is populated once.
IntentSlotKeptWithoutCollision ==
    (last.op = "extract_slots" /\ Collisions = {}) =>
        /\ \A name \in DOMAIN IntentSlots(last.utterance, last.intent) :
               last.value[name]
               = IntentSlots(last.utterance, last.intent)[name]
        /\ WrittenOnce

\* a call for hsa on "HSA balance": the action is extracted by the pattern
\* of the intent and no common entity matches
IntentSlotKeptWithoutCollisionWitness ==
    /\ last.op = "extract_slots"
    /\ Collisions = {}
    /\ last.intent = "hsa"
    /\ "action" \in DOMAIN last.value
    /\ last.value["action"].value = "balance"


(***************************************************************************)
(* classify in sessions that have earlier turns.                           *)
(***************************************************************************)
\* the utterances of the earlier turns and of the calls that follow them
PriorUtterances == {uRefill, uHsa, uExplain}

BoostUtterances == {uThat, uHsa, uExplain, uBenefits}

\* the turns a session had before: none, one or two calls of classify
PriorCalls ==
    {<<>>} \cup {<<u>> : u \in PriorUtterances}
           \cup {<<u, v>> : u \in PriorUtterances, v \in PriorUtterances}

\* LocalIntentClassifier.__init__ and the earlier calls of classify in "s1"
InitBoost ==
    /\ env \in Envs
    /\ vector_store = BuildKb(KnowledgeBase, env.key)
    /\ \E prior \in PriorCalls :
           sm = AfterCalls(vector_store, env, EmptySessions, "s1", prior)
    /\ last = NoCall
    /\ before = sm
    /\ calls = 0
    /\ added = EmptyDict
    /\ frame = Idle
    /\ hashkey = EmptyDict
    /\ embedded = {}
    /\ threads = EmptyDict
    /\ rng = FreshRng

NextBoost ==
    \E utterance \in BoostUtterances, session_id \in SessionIds,
       context_aware \in BOOLEAN :
        ClassifyCall(utterance, session_id, context_aware)

SpecBoost == InitBoost /\ [][NextBoost]_vars

\* the boost fired in the call that has just returned
BoostFired ==
    /\ Classified
    /\ "context_boosted" \in DOMAIN last.result
    /\ last.result.context_boosted

\* the candidates the boost chooses among, and the intents it looks for
BoostCandidates == GetCandidates(vector_store, env, last.utterance, 5)

BoostRecent == Range(GetRecentIntents(before, last.session_id, 3))

\* the returned intent is the first candidate of a recent intent, and the
\* base result is kept as original_intent and original_confidence
SwitchedToFirstRecent ==
    /\ \E h \in DOMAIN BoostCandidates :
           /\ BoostCandidates[h].intent = last.result.intent
           /\ BoostCandidates[h].intent \in BoostRecent
           /\ \A j \in 1..(h - 1) : BoostCandidates[j].intent \notin BoostRecent
    /\ last.result.original_intent = BaseOfLast.intent
    /\ last.result.original_confidence = BaseOfLast.confidence

\* the returned confidence is the base confidence raised by the amount
RaisedBy(amount) ==
    last.result.confidence = Min(BoostCap, BaseOfLast.confidence + amount)

\* C19: when the boost fires, the final intent is the first in rank of the
\* five best candidates whose intent is among the last three intents of
\* the session, the final confidence is min(0.95, base + 0.15) when the
\* utterance has a continuation cue word and min(0.95, base + 0.10) when
\* it is only short, and the base intent and confidence are recorded as
\* original_intent and original_confidence.
BoostSwitchesToFirstRecent ==
    BoostFired =>
        LET low == Lower(last.utterance)
            has_cue_word ==
                \/ \E i \in 1..Len(low) : low[i] \in ContinuationWords
                \/ \E i \in 1..(Len(low) - 1) :
                       <<low[i], low[i + 1]>> \in ContinuationPairs
        IN  /\ SwitchedToFirstRecent
            /\ has_cue_word => RaisedBy(BoostContinuation)
            /\ (~has_cue_word /\ IsShort(last.utterance))
                   => RaisedBy(BoostShort)

\* C19 with the cue read as the code reads it, as a substring of the
\* lower-cased utterance
BoostSwitchesToFirstRecentBySubstring ==
    BoostFired =>
        /\ SwitchedToFirstRecent
        /\ HasContinuation(last.utterance) => RaisedBy(BoostContinuation)
        /\ ~HasContinuation(last.utterance) => RaisedBy(BoostShort)

\* a boost that had two candidates of recent intents to choose from and
\* took the one ranked higher, which the base classification had not
BoostSwitchesToFirstRecentBySubstringWitness ==
    /\ BoostFired
    /\ \E i, j \in DOMAIN BoostCandidates :
           /\ i < j
           /\ BoostCandidates[i].intent \in BoostRecent
           /\ BoostCandidates[j].intent \in BoostRecent
           /\ last.result.intent = BoostCandidates[i].intent
    /\ last.result.intent # last.result.original_intent


(***************************************************************************)
(* The base classification, as recorded in the result of classify.         *)
(***************************************************************************)
\* the hits of the search of the call that has just returned
HitsOfLast ==
    Search(vector_store, Generate(last.utterance, env.key), 10, env.stable)

\* the intent and the confidence of the base classification: those of the
\* result, or the ones a boost has set aside
BaseIntentOfLast ==
    IF BoostFired THEN last.result.original_intent ELSE last.result.intent

BaseConfidenceOfLast ==
    IF BoostFired THEN last.result.original_confidence
    ELSE last.result.confidence

\* the sum of the scores of the hits of the intent
VoteIn(hits, intent) == SumSeq(ScoresOf(hits, intent))

\* the intent is an intent of the hits, and none of them has a larger sum
\* of scores
WinsTheVote(hits, intent) ==
    /\ \E i \in DOMAIN hits : hits[i].meta.intent_name = intent
    /\ \A i \in DOMAIN hits :
           VoteIn(hits, hits[i].meta.intent_name) <= VoteIn(hits, intent)

\* the confidence is the mean of the scores, or 0.5 when there is none
IsMean(confidence, matching) ==
    IF matching # <<>>
    THEN confidence * Len(matching) = SumSeq(matching)
    ELSE confidence = DefaultConfidence

\* the confidence is the mean of the scores rounded to three decimals, so
\* within half a thousandth of the mean, or 0.5 when there is no score
IsRoundedMean(confidence, matching) ==
    IF matching # <<>>
    THEN /\ 2 * (confidence * Len(matching) - SumSeq(matching))
            <= Len(matching)
         /\ 2 * (SumSeq(matching) - confidence * Len(matching))
            <= Len(matching)
    ELSE confidence = DefaultConfidence

\* the scores of the three best hits that are of the base intent
MatchingOfLast == ScoresOf(PySliceTo(HitsOfLast, 3), BaseIntentOfLast)

SlotTurn(utterance, intent) ==
    [utterance |-> utterance, intent |-> intent, confidence |-> 500,
     slots |-> ExtractSlots(utterance, intent), multi_intents |-> <<>>]

\* the turns added: one with an amount and a zip code, one with another
\* amount, one with no slot
MemoryTurns ==
    {SlotTurn(uPay75, "copay"), SlotTurn(uPay50, "copay"),
     SlotTurn(uHsa, "copay")}

\* the turns a session had before: none, or a turn with an amount and a zip
\* code followed by turns without slots, one short of the cap in all
EarlierTurns ==
    {<<>>,
     <<SlotTurn(uPay75, "copay")>>
         \o [i \in 1..(HistoryCap - 2) |-> SlotTurn(uHsa, "copay")]}

\* the session manager after the turns are added to session "s1"
RECURSIVE AfterTurns(_)
AfterTurns(turns) ==
    IF turns = <<>> THEN EmptySessions
    ELSE AddTurn(AfterTurns(SubSeq(turns, 1, Len(turns) - 1)), "s1",
                 turns[Len(turns)])

\* SessionManager.__init__ and the earlier turns of "s1"
InitMemory ==
    /\ env = AnEnv
    /\ vector_store = EmptyStore
    /\ \E turns \in EarlierTurns :
           /\ sm = AfterTurns(turns)
           /\ added = [session_id \in SessionIds |->
                          IF session_id = "s1" THEN turns ELSE <<>>]
    /\ last = NoCall
    /\ before = sm
    /\ calls = 0
    /\ frame = Idle
    /\ hashkey = EmptyDict
    /\ embedded = {}
    /\ threads = EmptyDict
    /\ rng = FreshRng

\* a call of SessionManager.add
MemoryAddCall(session_id, turn) ==
    /\ calls < MaxTurns
    /\ sm' = SessionAdd(sm, session_id, turn.utterance, turn.intent,
                        turn.confidence, turn.slots, turn.multi_intents)
    /\ added' = [added EXCEPT ![session_id] = Append(@, turn)]
    /\ last' = [op |-> "add", session_id |-> session_id]
    /\ before' = sm
    /\ calls' = calls + 1
    /\ UNCHANGED <<env, vector_store, frame, hashkey, embedded, threads, rng>>

\* a call of clear_session
MemoryClearCall(conversation_id) ==
    /\ sm' = ClearSession(sm, conversation_id)
    /\ added' = [added EXCEPT ![conversation_id] = <<>>]
    /\ last' = [op |-> "clear_session", session_id |-> conversation_id]
    /\ before' = sm
    /\ UNCHANGED <<env, vector_store, calls, frame, hashkey, embedded, threads, rng>>

NextMemory ==
    \/ \E session_id \in SessionIds, turn \in MemoryTurns :
           MemoryAddCall(session_id, turn)
    \/ \E conversation_id \in SessionIds : MemoryClearCall(conversation_id)

SpecMemory == InitMemory /\ [][NextMemory]_vars

\* the turns of the log that extracted the slot name
Extracting(log, name) == {i \in DOMAIN log : name \in DOMAIN log[i].slots}

\* the last of them
LastExtracting(log, name) ==
    CHOOSE i \in Extracting(log, name) :
        \A j \in Extracting(log, name) : j <= i

\* C21: the slot memory of a session maps each slot name that a turn since
\* its last clear extracted to the value extracted by the most recent such
\* turn, and holds no other name; so a turn that does not extract a name
\* leaves it as it was, also when the turn that extracted it is no longer
\* in the history.
SlotMemoryIsLatestExtraction ==
    \A session_id \in SessionIds :
        LET log == added[session_id]
            memory == GetSlotMemory(sm, session_id)
        IN  /\ DOMAIN memory = UNION {DOMAIN log[i].slots : i \in DOMAIN log}
            /\ \A name \in DOMAIN memory :
                   memory[name] = log[LastExtracting(log, name)].slots[name]

\* a session that remembers a zip code of a turn evicted from its history
\* and an amount that a later turn has overwritten
SlotMemoryIsLatestExtractionWitness ==
    \E session_id \in SessionIds :
        LET log == added[session_id]
            memory == GetSlotMemory(sm, session_id)
        IN  /\ Len(log) > HistoryCap
            /\ "zip_code" \in DOMAIN memory
            /\ \A i \in DOMAIN sm.sessions[session_id] :
                   "zip_code" \notin DOMAIN sm.sessions[session_id][i].slots
            /\ memory["amount"].value = "50"
            /\ log[1].slots["amount"].value = "75"


(***************************************************************************)
(* classify of utterances that hold several requests, and split_utterance  *)
(* called by itself.                                                       *)
(***************************************************************************)
\* the utterances tried: with a cue and two or three segments, with two
\* sentences and no cue, with a cue and one segment, and with neither
MultiUtterances ==
    {uMulti, uThree, uAndI, uTwoSentences, uAndCopay, uCopayAlso, uHsa}

\* a call of MultiIntentDetector.split_utterance
SplitUtteranceCall(utterance) ==
    /\ last' = [op |-> "split_utterance",
                utterance |-> utterance,
                value |-> SplitUtterance(utterance)]
    /\ UNCHANGED <<env, vector_store, sm, before, calls, added, frame,
                   hashkey, embedded, threads, rng>>

NextMulti ==
    \/ \E utterance \in MultiUtterances, context_aware \in BOOLEAN :
           ClassifyCall(utterance, "s1", context_aware)
    \/ \E utterance \in MultiUtterances \cup {uCopay} :
           SplitUtteranceCall(utterance)

SpecMulti == InitSession /\ [][NextMulti]_vars

\* what classify records for a segment: its base classification
SubIntent(segment) ==
    LET base == ClassifySingle(vector_store, env, segment)
    IN  [segment |-> segment, intent |-> base.intent,
         confidence |-> base.confidence, agent |-> base.agent_routing]

\* C22: classify records sub-intents if and only if the utterance has a
\* multi-intent cue and is split in more than one segment; multi_intents
\* then has one entry per segment, in segment order, each the base
\* classification of the segment alone, and the session gets the one turn
\* of the call; otherwise multi_intents is null (here the empty list) and
\* has_multi_intents is false.
SubIntentsIffCueAndSegments ==
    Classified =>
        LET segments == SplitUtterance(last.utterance)
            recorded == last.result.multi_intents
            history == DictGet(sm.sessions, last.session_id, <<>>)
            earlier == DictGet(before.sessions, last.session_id, <<>>)
        IN  /\ IF HasMultipleIntents(last.utterance) /\ Len(segments) > 1
               THEN /\ Len(recorded) = Len(segments)
                    /\ \A i \in DOMAIN segments :
                           recorded[i] = SubIntent(segments[i])
                    /\ last.result.has_multi_intents
               ELSE /\ recorded = <<>>
                    /\ ~last.result.has_multi_intents
            /\ Len(earlier) < HistoryCap => Len(history) = Len(earlier) + 1

\* a call that recorded three sub-intents, the second of an intent that is
\* not the intent of the whole utterance
SubIntentsIffCueAndSegmentsWitness ==
    /\ Classified
    /\ last.utterance = uThree
    /\ Len(last.result.multi_intents) = 3
    /\ last.result.multi_intents[1].segment = uRefill
    /\ last.result.multi_intents[1].intent = "pharmacy"
    /\ last.result.multi_intents[2].intent = "deductible"
    /\ last.result.multi_intents[3].segment = uHsa
    /\ last.result.multi_intents[2].intent # last.result.intent
    /\ last.context_aware
    /\ Len(DictGet(before.sessions, last.session_id, <<>>)) = 1

\* split_utterance has just returned
Split == last.op = "split_utterance"

\* some split pattern matches somewhere in the text
SplitMatchIn(text) ==
    \E p \in DOMAIN SplitPatterns : \E i \in DOMAIN text :
        SplitMatchAt(text, SplitPatterns[p], i)

\* the segment is the text from token a on, but for a full stop that ended
\* its last word
SegmentAt(text, segment, a) ==
    /\ a + Len(segment) - 1 <= Len(text)
    /\ \A k \in DOMAIN segment :
           \/ segment[k] = text[a + k - 1]
           \/ /\ k = Len(segment)
              /\ text[a + k - 1] \in DOMAIN StopTable
              /\ segment[k] = StopTable[text[a + k - 1]]

\* the segments are parts of the text from token from on, one after the
\* other
RECURSIVE InTextOrder(_, _, _)
InTextOrder(text, segments, from) ==
    \/ segments = <<>>
    \/ \E a \in from..Len(text) :
           /\ SegmentAt(text, Head(segments), a)
           /\ InTextOrder(text, Tail(segments), a + Len(Head(segments)))

\* C23: split_utterance applies its patterns in their order, every pass to
\* every segment left by the passes before, so that no returned segment
\* holds a match of a pattern; every returned segment has at least two
\* words (a segment is a list of words here, so it is trimmed), the
\* segments are parts of the utterance in the order of their text, and an
\* utterance that no pattern matches is returned as the one segment, or as
\* none when it has fewer than two words.
SplitIsOrderedLongSegments ==
    Split =>
        /\ \A i \in DOMAIN last.value :
               /\ Len(last.value[i]) >= 2
               /\ ~SplitMatchIn(last.value[i])
        /\ InTextOrder(last.utterance, last.value, 1)
        /\ ~SplitMatchIn(last.utterance) =>
               last.value = IF Len(last.utterance) >= 2
                            THEN <<last.utterance>> ELSE <<>>

\* "and also" is split as one phrase, before "also" is tried, then "plus":
\* three segments, none of them ending with "and"
SplitIsOrderedLongSegmentsWitness ==
    /\ Split
    /\ last.utterance = uThree
    /\ last.value = <<uRefill, <<"what", "is", "my", "deductible">>, uHsa>>

\* the names of the slots defined for the intent, in definition order
DefinedNames(intent) ==
    [i \in DOMAIN SlotDefinitions(intent) |-> SlotDefinitions(intent)[i].name]

\* the names of the list that are no key of the dict, in the order of the list
AbsentFrom(names, filled) ==
    SelectSeq(names, LAMBDA name : name \notin DOMAIN filled)

\* C24: missing_slots names exactly the slots defined for the final intent
\* that are no key of merged_slots, in definition order, each with the type
\* of its definition; a slot the session remembers is therefore not
\* reported, and an intent without slot definitions has an empty list.
MissingSlotsAreDefinedAndAbsent ==
    Classified =>
        LET missing == last.result.missing_slots
            defs == SlotDefinitions(last.result.intent)
            memory == DictGet(before.slot_memory, last.session_id, EmptyDict)
        IN  /\ [i \in DOMAIN missing |-> missing[i].slot_name]
               = AbsentFrom(DefinedNames(last.result.intent),
                            last.result.merged_slots)
            /\ \A i \in DOMAIN missing : \E d \in DOMAIN defs :
                   /\ defs[d].name = missing[i].slot_name
                   /\ defs[d].type = missing[i].type
            /\ \A i \in DOMAIN missing :
                   missing[i].slot_name \notin DOMAIN memory
            /\ defs = <<>> => missing = <<>>
            /\ last.result.slot_filling_complete <=> missing = <<>>

\* a slot of the final intent that the turn did not extract and the session
\* remembers is not reported, while another slot of the intent is
MissingSlotsAreDefinedAndAbsentWitness ==
    /\ Classified
    /\ LET missing == last.result.missing_slots
           names == Range(DefinedNames(last.result.intent))
           memory == DictGet(before.slot_memory, last.session_id, EmptyDict)
       IN  /\ (names \cap DOMAIN memory) \ DOMAIN last.result.slots # {}
           /\ missing # <<>>


\* resolve_disambiguation has just returned from a call with a selection
\* among the options it had
ValidSelection ==
    /\ last.op = "resolve_disambiguation"
    /\ last.selected_option >= 1
    /\ last.selected_option <= last.offered

\* the candidate that the selection of the last call names
SelectedCandidate ==
    GetCandidates(vector_store, env, last.original_utterance,
                  MaxOptions)[last.selected_option]

\* the result names the candidate as resolved
ResolvedAs(value, selected) ==
    /\ "status" \in DOMAIN value
    /\ value.status = "resolved"
    /\ value.resolved_intent = selected.intent
    /\ value.intent_id = selected.intent_id
    /\ value.agent = selected.agent
    /\ value.category = selected.category

\* C25: resolve_disambiguation with a selection inside 1..len(candidates)
\* returns status "resolved" with the intent, intent id, agent and category
\* of the selected candidate, and appends exactly one turn with that intent
\* to the history of the conversation.
ValidSelectionResolved ==
    ValidSelection =>
        \A selected \in {SelectedCandidate} :
            /\ ResolvedAs(last.value, selected)
            /\ \E turn \in Range(DictGet(sm.sessions, last.session_id, <<>>)) :
                   /\ DictGet(sm.sessions, last.session_id, <<>>)
                      = Append(DictGet(before.sessions, last.session_id, <<>>),
                               turn)
                   /\ turn.intent = selected.intent

\* C25, as the code has it: a selection among the options raises TypeError
\* out of the call of add, and the session manager is as it was
ValidSelectionRaises ==
    ValidSelection =>
        /\ last.value = [raised |-> "TypeError"]
        /\ sm = before

\* the first option chosen for a conversation that holds a turn
ValidSelectionRaisesWitness ==
    /\ ValidSelection
    /\ last.selected_option = 1
    /\ last.offered = MaxOptions
    /\ DictGet(before.sessions, last.session_id, <<>>) # <<>>

(***************************************************************************)
(* The intents left over from a turn with sub-intents: classify followed   *)
(* by get_pending_intents and get_next_pending_intent.                     *)
(***************************************************************************)

\* a call of LocalIntentClassifier.get_next_pending_intent
GetNextPendingIntentCall(session_id) ==
    /\ last' = [op |-> "get_next_pending_intent", session_id |-> session_id,
                value |-> GetNextPendingIntent(sm, session_id)]
    /\ sm' = AfterGetPendingIntents(sm, session_id)
    /\ before' = sm
    /\ UNCHANGED <<env, vector_store, calls, added, frame, hashkey, embedded, threads, rng>>

NextPending ==
    \/ \E utterance \in MultiUtterances, session_id \in SessionIds,
          context_aware \in BOOLEAN :
           ClassifyCall(utterance, session_id, context_aware)
    \/ \E session_id \in SessionIds : GetPendingIntentsCall(session_id)
    \/ \E session_id \in SessionIds : GetNextPendingIntentCall(session_id)

SpecPending == InitSession /\ [][NextPending]_vars

\* the sub-intents recorded by the latest turn of the session, <<>> when
\* there is no turn
LatestSubIntents(sessions, session_id) ==
    LET history == DictGet(sessions, session_id, <<>>)
    IN  IF history = <<>> THEN <<>>
        ELSE history[Len(history)].multi_intents

\* C26: the latest turn of a session holds the sub-intents [i1, ..., ik]
\* of the classify call that recorded it; get_pending_intents returns
\* [i2, ..., ik] of the latest turn and get_next_pending_intent returns i2
\* with remaining_count k - 2, both without changing the session manager;
\* when the latest turn recorded no sub-intents the pending list is empty
\* and get_next_pending_intent returns None.
PendingAreLaterSubIntents ==
    /\ Classified =>
           LatestSubIntents(sm.sessions, last.session_id)
           = [i \in DOMAIN last.result.multi_intents |->
                  last.result.multi_intents[i].intent]
    /\ last.op \in {"get_pending_intents", "get_next_pending_intent"} =>
           \A recorded \in {LatestSubIntents(before.sessions, last.session_id)} :
               /\ sm = before
               /\ last.op = "get_pending_intents" =>
                      last.value = IF recorded = <<>> THEN <<>>
                                   ELSE Tail(recorded)
               /\ last.op = "get_next_pending_intent" =>
                      last.value = IF Len(recorded) >= 2
                                   THEN [intent |-> recorded[2],
                                         remaining_count |-> Len(recorded) - 2]
                                   ELSE None

\* after a turn with three sub-intents, the second is the next pending one
\* and one more remains
PendingAreLaterSubIntentsWitness ==
    /\ last.op = "get_next_pending_intent"
    /\ Len(LatestSubIntents(sm.sessions, last.session_id)) = 3
    /\ last.value = [intent |-> "deductible", remaining_count |-> 1]

\* the result carries the intent id, agent and category that the catalog
\* lists for the intent
RoutedAs(result, intent) ==
    \A entry \in Range(KnowledgeBase) :
        entry.intent_name = intent =>
            /\ result.intent_id = entry.intent_id
            /\ result.agent_routing = entry.agent_routing
            /\ result.category = entry.category

\* C27: over a non-empty index the agent, intent id and category of a
\* classify result are those of the catalog entry of the returned intent,
\* also when the context boost has switched the intent.
RoutingFollowsFinalIntent ==
    (Classified /\ vector_store.vectors # <<>>) =>
        RoutedAs(last.result, last.result.intent)

\* C27, as the code has it: the agent, intent id and category are those of
\* the intent that won the vote, which the boost leaves in place when it
\* switches the intent.
RoutingFollowsVotedIntent ==
    (Classified /\ vector_store.vectors # <<>>) =>
        RoutedAs(last.result, BaseIntentOfLast)

\* the boost has switched the intent to one of another agent
RoutingFollowsVotedIntentWitness ==
    /\ Classified
    /\ BoostFired
    /\ last.result.intent # last.result.original_intent
    /\ ~RoutedAs(last.result, last.result.intent)
    /\ RoutedAs(last.result, last.result.original_intent)

(***************************************************************************)
(* The skill tool classify_intent, called for conversations and members.   *)
(***************************************************************************)
ConversationIds == {NoId, "s1", "s2"}

MemberIds == {NoId, "m1"}

SkillUtterances == {uRefill, uThat, uPay75}

\* a call of classify_intent
ClassifyIntentCall(user_input, conversation_id, member_id, context_aware) ==
    /\ calls < MaxCalls
    /\ \E out \in {ClassifyIntent(vector_store, env, sm, user_input,
                                   conversation_id, member_id, context_aware)} :
           /\ sm' = out.sm
           /\ last' = [op |-> "classify_intent",
                       user_input |-> user_input,
                       conversation_id |-> conversation_id,
                       member_id |-> member_id,
                       context_aware |-> context_aware,
                       value |-> out.value]
    /\ before' = sm
    /\ calls' = calls + 1
    /\ UNCHANGED <<env, vector_store, added, frame, hashkey, embedded, threads, rng>>

NextSkill ==
    \E user_input \in SkillUtterances, conversation_id \in ConversationIds,
       member_id \in MemberIds, context_aware \in BOOLEAN :
        ClassifyIntentCall(user_input, conversation_id, member_id,
                           context_aware)

SpecSkill == InitSession /\ [][NextSkill]_vars

\* classify_intent has just returned from a call with a conversation id
InConversation ==
    /\ last.op = "classify_intent"
    /\ last.conversation_id # NoId

\* the call has added one turn to the session and has left the history and
\* the slot memory of every other session as they were
RecordedUnder(session_id) ==
    /\ Len(DictGet(sm.sessions, session_id, <<>>))
       = Len(DictGet(before.sessions, session_id, <<>>)) + 1
    /\ \A other \in (DOMAIN sm.sessions \cup DOMAIN before.sessions
                      \cup DOMAIN sm.slot_memory
                      \cup DOMAIN before.slot_memory) \ {session_id} :
           /\ DictGet(sm.sessions, other, <<>>)
              = DictGet(before.sessions, other, <<>>)
           /\ DictGet(sm.slot_memory, other, EmptyDict)
              = DictGet(before.slot_memory, other, EmptyDict)

\* C28: a call of classify_intent with a conversation id records its turn
\* under that conversation id, whether or not a member id is given, and
\* touches the history and slot memory of no other session.
RecordedUnderConversation ==
    InConversation =>
        /\ RecordedUnder(last.conversation_id)
        /\ last.value.session.conversation_id = last.conversation_id

\* C28, as the code has it: the turn is recorded under the conversation id
\* when a member id is given too, and under "default" when none is.
RecordedUnderConversationOfMember ==
    InConversation =>
        \A session_id \in {IF last.member_id # NoId THEN last.conversation_id
                           ELSE "default"} :
            /\ RecordedUnder(session_id)
            /\ last.value.session.conversation_id = session_id

\* the second of two calls without a member id, for another conversation
\* than the first: it finds the turn of the first in its history
RecordedUnderConversationOfMemberWitness ==
    /\ InConversation
    /\ last.conversation_id = "s2"
    /\ last.member_id = NoId
    /\ "s2" \notin DOMAIN sm.sessions
    /\ "s1" \notin DOMAIN sm.sessions
    /\ last.value.session.turn_count = 2
    /\ last.value.merged_slots # last.value.slots

\* the intents of the candidates of the result
CandidateIntents(result) ==
    {result.candidates[i].intent : i \in DOMAIN result.candidates}

\* the intents of the options of the disambiguation of the result
OptionIntents(result) ==
    {result.disambiguation.options[i].intent :
         i \in DOMAIN result.disambiguation.options}

\* classify has just returned over a non-empty index, without a boost
ClassifiedUnboosted ==
    /\ Classified
    /\ vector_store.vectors # <<>>
    /\ ~BoostFired

\* C29: over a non-empty index and without a context boost, the intent
\* classify returns is one of the candidates of the same result, and so one
\* of the disambiguation options whenever needs_disambiguation is true.
IntentAmongCandidates ==
    ClassifiedUnboosted =>
        /\ last.result.intent \in CandidateIntents(last.result)
        /\ last.result.needs_disambiguation =>
               last.result.intent \in OptionIntents(last.result)

\* C29, as the code has it: the intent is chosen by the sum of the scores
\* of its hits among the five best and the candidates by the average score
\* of their hits, so the intent is left out of the candidates only when
\* three other intents are listed.
IntentAmongCandidatesUnlessFull ==
    ClassifiedUnboosted =>
        \/ last.result.intent \in CandidateIntents(last.result)
        \/ Len(last.result.candidates) = MaxOptions

\* the user is asked to choose among three intents, none of which is the
\* intent returned
IntentAmongCandidatesUnlessFullWitness ==
    /\ ClassifiedUnboosted
    /\ last.result.needs_disambiguation
    /\ Len(last.result.disambiguation.options) = MaxOptions
    /\ last.result.intent \notin OptionIntents(last.result)
    /\ last.result.intent \notin CandidateIntents(last.result)

\* get or get_recent_intents has just returned
GotTurns == last.op \in {"get", "get_recent_intents"}

\* the last count turns of the session of the last call, oldest first, as
\* the operation of the last call returns them: the turns, or their intents
MostRecent(count) ==
    LET history == DictGet(before.sessions, last.session_id, <<>>)
        from == Len(history) - Min(count, Len(history))
    IN  [i \in 1..Min(count, Len(history)) |->
            IF last.op = "get" THEN history[from + i]
            ELSE history[from + i].intent]

\* C30: for every session and every n >= 0, get(session_id, n) and
\* get_recent_intents(session_id, n) return at most n entries, the n most
\* recent turns oldest first; for n = 0 they return the empty list.
GetWithinN ==
    GotTurns =>
        /\ Len(last.value) <= last.n
        /\ last.value = MostRecent(last.n)
        /\ last.n = 0 => last.value = <<>>

\* C30, for n >= 1: the min(n, length) most recent turns, oldest first;
\* for n = 0 the whole history of the session.
GetWithinPositiveN ==
    GotTurns =>
        /\ last.n >= 1 => last.value = MostRecent(last.n)
        /\ last.n = 0 => last.value = MostRecent(HistoryCap)

\* get_recent_intents cut a longer history down to its last two turns, of
\* different intents
GetWithinPositiveNWitness ==
    /\ last.op = "get_recent_intents"
    /\ last.n = 2
    /\ Len(DictGet(before.sessions, last.session_id, <<>>)) > 2
    /\ Len(last.value) = 2
    /\ last.value[1] # last.value[2]
====
